---------------------------- MODULE Spec2Model ----------------------------
(***************************************************************************)
(* The transaction parser of the AMM SDK (packages/parser): the walker     *)
(* parseTransaction, the operation classifier getTransactionVariant, the   *)
(* three transfer reconcilers and the operation parsers.                   *)
(*                                                                         *)
(* Conventions of the model                                                *)
(*  - An instruction's `data` is the decoded payload, kept as the three    *)
(*    things the code reads from it: `head`, the hex rendering of its      *)
(*    first (at most) 8 bytes; `len`, its byte length; `amount`, the u64   *)
(*    in bytes 1..8 (read only when len is 9 or 10).                       *)
(*  - A transfer's tokenAmount is a UI amount, raw / 10^decimals; it is    *)
(*    kept as an integer number of units of 10^-UiScale.                   *)
(*  - JS null and undefined are the strings Null and Undefined; an array   *)
(*    read past the end yields Undefined.                                  *)
(*  - The decimals table is a function whose domain is the set of mints   *)
(*    the table holds.  The reconcilers of utils.ts read it with           *)
(*    mintDecimals.get(mint) and the walker with mintDecimals[mint]; both  *)
(*    are the lookup of the mint's entry here.                             *)
(***************************************************************************)
EXTENDS Integers, Sequences, FiniteSets, TLC

VARIABLES
    transaction,     \* the EnrichedTransaction of the call in progress
    mintDecimals,    \* the caller's DecimalsTable (shared across calls)
    tableAtCall,     \* the DecimalsTable as the caller passed it to this call
    collectionsAtCall, \* the three output collections as the caller passed them
    poolActivities,  \* caller-owned output collection
    creates,         \* caller-owned output collection
    closes,          \* caller-owned output collection
    pc,              \* "idle" | "loop" | "scan" | "done" | "raised"
    index,           \* parseTransaction's `index` (top-level position)
    i,               \* the CPI scan cursor `i`
    lastCursor,      \* the cursor value the previous scan iteration classified
    error,           \* what the call raised, or Null
    lastParse        \* the most recent operation-parser call and its result

vars == <<transaction, mintDecimals, tableAtCall, collectionsAtCall, poolActivities,
          creates, closes, pc, index, i, lastCursor, error, lastParse>>

---------------------------------------------------------------------------
(* Bounds of the model *)

\* longest inner-instruction body that follows an operation instruction
MaxInner == 4
\* longest inner-instruction list drawn over the full CPI alphabet
MaxCpi == 3
\* tokenAmount is kept in units of 10^-UiScale
UiScale == 2

---------------------------------------------------------------------------
(* JS values *)

Null == "null"
Undefined == "undefined"

\* array[k] with a 0-based k
At(arr, k) == IF k < Len(arr) THEN arr[k + 1] ELSE Undefined

\* array.slice(k)
Slice(arr, k) == SubSeq(arr, k + 1, Len(arr))

\* the search that keeps the last element found
FindLast(hits) ==
    IF \E k \in 1..Len(hits) : hits[k]
    THEN CHOOSE k \in 1..Len(hits) : hits[k] /\ \A j \in (k + 1)..Len(hits) : ~hits[j]
    ELSE 0

\* array.find: `hits` holds the predicate's value for each element in order;
\* the 1-based position of the first element found, 0 for none
FindFirst(hits) ==
    IF \E k \in 1..Len(hits) : hits[k]
    THEN CHOOSE k \in 1..Len(hits) : hits[k] /\ \A j \in 1..(k - 1) : ~hits[j]
    ELSE 0

RECURSIVE Pow10(_)
Pow10(n) == IF n <= 0 THEN 1 ELSE 10 * Pow10(n - 1)

---------------------------------------------------------------------------
(* Static configuration *)

TOKEN_2022_PROGRAM_ADDRESS == "TokenzQdBNbLqP5VEhdkAS6EPFLC1PHnBqCXEpPxuEb"
TOKEN_PROGRAM_ADDRESS == "TokenkegQfeZyiNwAJbNbGKPFXCWuBvf9Ss623VQ5DA"
STABLE_SWAP_ADDRESS == "stableSwapProgram"
WEIGHTED_SWAP_ADDRESS == "weightedSwapProgram"

DISCRIMINATORS(key) ==
    CASE key = "afaf6d1f0d989bed" -> "create"
      [] key = "92ccf1d55615fdd3" -> "close"
      [] key = "f8c69e91e17587c8" -> "swap"
      [] key = "2b04ed0b1ac91e62" -> "swap_v2"
      [] key = "f223c68952e1f2b6" -> "deposit"
      [] key = "b712469c946da122" -> "withdraw"
      [] OTHER -> Undefined

\* the classifier without the test of the program: the payload alone decides
getTransactionVariantOfAnyProgram(instruction) ==
    IF DISCRIMINATORS(instruction.data.head) = Undefined THEN Null
    ELSE DISCRIMINATORS(instruction.data.head)

getTransactionVariant(instruction) ==
    IF instruction.programId # WEIGHTED_SWAP_ADDRESS
       /\ instruction.programId # STABLE_SWAP_ADDRESS
    THEN Null
    ELSE IF DISCRIMINATORS(instruction.data.head) = Undefined THEN Null
    ELSE DISCRIMINATORS(instruction.data.head)

---------------------------------------------------------------------------
(* Transfer reconciliation *)

NoTransfer == [isNull |-> TRUE]

EMPTY_TOKEN_TRANSFER ==
    [isNull |-> FALSE,
     fromUserAccount |-> Null, toUserAccount |-> Null,
     fromTokenAccount |-> Null, toTokenAccount |-> Null,
     tokenAmount |-> 0, rawAmount |-> 0, mint |-> ""]

\* SafeAmount.toUiAmount(amount, decimals), in units of 10^-UiScale
toUiAmount(amount, decimals) == amount * Pow10(UiScale - decimals)

\* transfer.tokenAmount === SafeAmount.toUiAmount(amount, decimals of transfer.mint)
AmountMatches(transfer, amount, decimalsTable) ==
    /\ transfer.mint \in DOMAIN decimalsTable
    /\ transfer.tokenAmount = toUiAmount(amount, decimalsTable[transfer.mint])

\* { ...transfer, rawAmount } or null
WithRawAmount(tokenTransfers, k, rawAmount) ==
    IF k = 0 THEN NoTransfer
    ELSE [isNull |-> FALSE,
          fromUserAccount |-> tokenTransfers[k].fromUserAccount,
          toUserAccount |-> tokenTransfers[k].toUserAccount,
          fromTokenAccount |-> tokenTransfers[k].fromTokenAccount,
          toTokenAccount |-> tokenTransfers[k].toTokenAccount,
          tokenAmount |-> tokenTransfers[k].tokenAmount,
          rawAmount |-> rawAmount,
          mint |-> tokenTransfers[k].mint]

BurnMatch(transfer, innerInstruction, decimalsTable) ==
    /\ AmountMatches(transfer, innerInstruction.data.amount, decimalsTable)
    /\ transfer.mint = At(innerInstruction.accounts, 1)
    /\ transfer.fromTokenAccount = At(innerInstruction.accounts, 0)
    /\ transfer.fromUserAccount = At(innerInstruction.accounts, 2)

getTokenBurnFromInnerInstruction(tokenTransfers, innerInstruction, decimalsTable) ==
    IF innerInstruction.data.len = 9 \/ innerInstruction.data.len = 10
    THEN LET hits == [k \in 1..Len(tokenTransfers) |->
                         BurnMatch(tokenTransfers[k], innerInstruction, decimalsTable)]
         IN WithRawAmount(tokenTransfers, FindFirst(hits), innerInstruction.data.amount)
    ELSE NoTransfer

\* the MintTo test with the comparison of the mint left out
MintToMatchByDestination(transfer, innerInstruction, decimalsTable) ==
    /\ AmountMatches(transfer, innerInstruction.data.amount, decimalsTable)
    /\ transfer.toTokenAccount = At(innerInstruction.accounts, 1)

MintToMatch(transfer, innerInstruction, decimalsTable) ==
    /\ AmountMatches(transfer, innerInstruction.data.amount, decimalsTable)
    /\ transfer.mint = At(innerInstruction.accounts, 0)
    /\ transfer.toTokenAccount = At(innerInstruction.accounts, 1)

getTokenMintToFromInnerInstruction(tokenTransfers, innerInstruction, decimalsTable) ==
    IF innerInstruction.data.len = 9 \/ innerInstruction.data.len = 10
    THEN LET hits == [k \in 1..Len(tokenTransfers) |->
                         MintToMatch(tokenTransfers[k], innerInstruction, decimalsTable)]
         IN WithRawAmount(tokenTransfers, FindFirst(hits), innerInstruction.data.amount)
    ELSE NoTransfer

\* the unchecked form (9 bytes): source accounts[0], destination accounts[1]
TransferMatch(transfer, innerInstruction, decimalsTable) ==
    /\ AmountMatches(transfer, innerInstruction.data.amount, decimalsTable)
    /\ transfer.fromTokenAccount = At(innerInstruction.accounts, 0)
    /\ transfer.toTokenAccount = At(innerInstruction.accounts, 1)

\* the checked form (10 bytes): source accounts[0], destination accounts[2]
TransferCheckedMatch(transfer, innerInstruction, decimalsTable) ==
    /\ AmountMatches(transfer, innerInstruction.data.amount, decimalsTable)
    /\ transfer.fromTokenAccount = At(innerInstruction.accounts, 0)
    /\ transfer.toTokenAccount = At(innerInstruction.accounts, 2)

\* the zero-amount test left out: a zero-amount transfer is looked up like any other
ZeroAmountIsLookedUp(innerInstruction) == FALSE

\* whether the zero amount of a 9- or 10-byte payload returns the sentinel
ZeroAmountIsEmpty(innerInstruction) == innerInstruction.data.amount = 0

getTokenTransferFromInnerInstruction(tokenTransfers, innerInstruction, decimalsTable) ==
    IF innerInstruction.data.len = 9
    THEN IF ZeroAmountIsEmpty(innerInstruction) THEN EMPTY_TOKEN_TRANSFER
         ELSE LET hits == [k \in 1..Len(tokenTransfers) |->
                              TransferMatch(tokenTransfers[k], innerInstruction, decimalsTable)]
              IN WithRawAmount(tokenTransfers, FindFirst(hits),
                               innerInstruction.data.amount)
    ELSE IF innerInstruction.data.len = 10
    THEN IF ZeroAmountIsEmpty(innerInstruction) THEN EMPTY_TOKEN_TRANSFER
         ELSE LET hits == [k \in 1..Len(tokenTransfers) |->
                              TransferCheckedMatch(tokenTransfers[k], innerInstruction, decimalsTable)]
              IN WithRawAmount(tokenTransfers, FindFirst(hits),
                               innerInstruction.data.amount)
    ELSE NoTransfer

---------------------------------------------------------------------------
(* Operation parsers.  A parser call either returns its activities or      *)
(* throws; the result records which, and the inner instruction at fault.   *)

TokenTransferNotFound == "TokenTransferNotFound"
\* reading a property of undefined (an inner instruction that is not there)
TypeError == "TypeError"

MissingInstruction ==
    [programId |-> Undefined, accounts |-> <<>>,
     data |-> [head |-> "", len |-> 0, amount |-> 0]]

Returned(activities) ==
    [status |-> "ok", activities |-> activities, failedOn |-> MissingInstruction]

Thrown(kind, innerInstruction) ==
    [status |-> kind, activities |-> <<>>, failedOn |-> innerInstruction]

\* accounts.findIndex((key) => key === TOKEN_2022_PROGRAM_ADDRESS) !== -1
HasToken2022(accounts) ==
    \E k \in 1..Len(accounts) : accounts[k] = TOKEN_2022_PROGRAM_ADDRESS

\* amountU64 is rawAmount, or "-" + rawAmount: a sign and the digits
PositiveActivity(address, transfer, userAddress, variant) ==
    [address |-> address, tokenAddress |-> transfer.mint, userAddress |-> userAddress,
     amountU64 |-> [minus |-> FALSE, digits |-> transfer.rawAmount],
     amount |-> transfer.tokenAmount, variant |-> variant]

NegativeActivity(address, transfer, userAddress, variant) ==
    [address |-> address, tokenAddress |-> transfer.mint, userAddress |-> userAddress,
     amountU64 |-> [minus |-> TRUE, digits |-> transfer.rawAmount],
     amount |-> 0 - transfer.tokenAmount, variant |-> variant]

\* the variant taken from the discriminator that classified the instruction
SwapVariantOfDiscriminator(instruction) ==
    IF DISCRIMINATORS(instruction.data.head) = "swap_v2" THEN "swap_v2" ELSE "swap"

SwapVariant(instruction) ==
    IF HasToken2022(instruction.accounts) THEN "swap_v2" ELSE "swap"

SwapPoolAddress(instruction) ==
    IF SwapVariant(instruction) = "swap"
    THEN At(instruction.accounts, 6) ELSE At(instruction.accounts, 8)

\* the beneficiary test with the comparison of the first accounts left out
HasBeneficiaryLegByProgram(inner) ==
    /\ Len(inner) >= 4
    /\ inner[3].programId = inner[4].programId

\* innerInstructions[2].programId === innerInstructions[3]?.programId &&
\* innerInstructions[2].accounts[0] === innerInstructions[3].accounts[0]
HasBeneficiaryLeg(inner) ==
    /\ Len(inner) >= 4
    /\ inner[3].programId = inner[4].programId
    /\ At(inner[3].accounts, 0) = At(inner[4].accounts, 0)

SwapInputLeg(instruction, transferIn) ==
    PositiveActivity(SwapPoolAddress(instruction), transferIn,
                     transferIn.fromUserAccount, SwapVariant(instruction))

SwapFeeLeg(instruction, transferBeneficiary) ==
    NegativeActivity(SwapPoolAddress(instruction), transferBeneficiary,
                     Null, SwapVariant(instruction))

\* the output leg attributed to the sender of the transfer
SwapOutputLegOfSender(instruction, transferOut) ==
    NegativeActivity(SwapPoolAddress(instruction), transferOut,
                     transferOut.fromUserAccount, SwapVariant(instruction))

SwapOutputLeg(instruction, transferOut) ==
    NegativeActivity(SwapPoolAddress(instruction), transferOut,
                     transferOut.toUserAccount, SwapVariant(instruction))

parseSwap(instruction, tokenTransfers, decimalsTable) ==
    LET inner == instruction.innerInstructions
        Reconcile(k) ==
            getTokenTransferFromInnerInstruction(tokenTransfers, inner[k], decimalsTable)
    IN  IF Len(inner) < 1 THEN Thrown(TypeError, MissingInstruction)
        ELSE IF Reconcile(1).isNull THEN Thrown(TokenTransferNotFound, inner[1])
        ELSE IF Len(inner) < 3 THEN Thrown(TypeError, MissingInstruction)
        ELSE IF HasBeneficiaryLeg(inner)
        THEN IF Reconcile(3).isNull THEN Thrown(TokenTransferNotFound, inner[3])
             ELSE IF Reconcile(4).isNull THEN Thrown(TokenTransferNotFound, inner[4])
             ELSE Returned(<<SwapFeeLeg(instruction, Reconcile(3)),
                             SwapInputLeg(instruction, Reconcile(1)),
                             SwapOutputLeg(instruction, Reconcile(4))>>)
        ELSE IF Reconcile(3).isNull THEN Thrown(TokenTransferNotFound, inner[3])
        ELSE Returned(<<SwapInputLeg(instruction, Reconcile(1)),
                        SwapOutputLeg(instruction, Reconcile(3))>>)

DepositVariant(instruction) ==
    IF HasToken2022(instruction.accounts) THEN "deposit_v2" ELSE "deposit"

\* the loop of parseDeposit from inner position k (0-based) on
RECURSIVE DepositWalk(_, _, _, _, _)
DepositWalk(instruction, tokenTransfers, decimalsTable, k, activities) ==
    LET inner == instruction.innerInstructions
        poolAddress == At(instruction.accounts, 3)
        variant == DepositVariant(instruction)
    IN  IF k >= Len(inner) THEN Returned(activities)
        ELSE LET mintTo == getTokenMintToFromInnerInstruction(
                               tokenTransfers, inner[k + 1], decimalsTable)
                 transfer == getTokenTransferFromInnerInstruction(
                               tokenTransfers, inner[k + 1], decimalsTable)
             IN  IF ~mintTo.isNull
                 THEN Returned(Append(activities,
                          NegativeActivity(poolAddress, mintTo, mintTo.toUserAccount, variant)))
                 ELSE IF transfer.isNull THEN Thrown(TokenTransferNotFound, inner[k + 1])
                 ELSE DepositWalk(instruction, tokenTransfers, decimalsTable, k + 1,
                          Append(activities,
                              PositiveActivity(poolAddress, transfer,
                                               transfer.fromUserAccount, variant)))

\* parseDeposit with the walk started one inner instruction late
parseDepositFromSecond(instruction, tokenTransfers, decimalsTable) ==
    DepositWalk(instruction, tokenTransfers, decimalsTable, 1, <<>>)

parseDeposit(instruction, tokenTransfers, decimalsTable) ==
    DepositWalk(instruction, tokenTransfers, decimalsTable, 0, <<>>)

WithdrawVariant(instruction) ==
    IF HasToken2022(instruction.accounts) THEN "withdraw_v2" ELSE "withdraw"

\* the filter with the token-2022 program forgotten
IsLegacyTokenInstruction(innerInstruction) ==
    innerInstruction.programId = TOKEN_PROGRAM_ADDRESS

IsTokenInstruction(innerInstruction) ==
    \/ innerInstruction.programId = TOKEN_2022_PROGRAM_ADDRESS
    \/ innerInstruction.programId = TOKEN_PROGRAM_ADDRESS

\* instruction.innerInstructions.filter(token programs only)
TokenInstructions(inner) == SelectSeq(inner, IsTokenInstruction)

\* the loop of parseWithdraw over tokenInstructions from position k (0-based) on
RECURSIVE WithdrawWalk(_, _, _, _, _)
WithdrawWalk(instruction, tokenTransfers, decimalsTable, k, activities) ==
    LET tokenInstructions == TokenInstructions(instruction.innerInstructions)
        poolAddress == At(instruction.accounts, 3)
        variant == WithdrawVariant(instruction)
    IN  IF k >= Len(tokenInstructions) THEN Returned(activities)
        ELSE LET burn == getTokenBurnFromInnerInstruction(
                             tokenTransfers, tokenInstructions[k + 1], decimalsTable)
                 transfer == getTokenTransferFromInnerInstruction(
                             tokenTransfers, tokenInstructions[k + 1], decimalsTable)
             IN  IF ~burn.isNull
                 THEN WithdrawWalk(instruction, tokenTransfers, decimalsTable, k + 1,
                          Append(activities,
                              PositiveActivity(poolAddress, burn,
                                               burn.fromUserAccount, variant)))
                 ELSE IF transfer.isNull
                 THEN Thrown(TokenTransferNotFound, tokenInstructions[k + 1])
                 ELSE WithdrawWalk(instruction, tokenTransfers, decimalsTable, k + 1,
                          Append(activities,
                              NegativeActivity(poolAddress, transfer,
                                               transfer.toUserAccount, variant)))

parseWithdraw(instruction, tokenTransfers, decimalsTable) ==
    WithdrawWalk(instruction, tokenTransfers, decimalsTable, 0, <<>>)

\* Array.from(new Set(arr)): duplicates removed, first occurrences kept in order
RECURSIVE Dedupe(_)
Dedupe(arr) ==
    IF arr = <<>> THEN <<>>
    ELSE LET init == Dedupe(SubSeq(arr, 1, Len(arr) - 1))
             last == arr[Len(arr)]
         IN  IF \E k \in 1..Len(init) : init[k] = last THEN init ELSE Append(init, last)

\* parseCreate without the Set: the accounts from position 6 on as they are
parseCreateKeepingDuplicates(instruction) ==
    [address |-> At(instruction.accounts, 2),
     tokenAddress |-> At(instruction.accounts, 1),
     tokenAddresses |-> Slice(instruction.accounts, 6),
     variant |-> "create"]

parseCreate(instruction) ==
    [address |-> At(instruction.accounts, 2),
     tokenAddress |-> At(instruction.accounts, 1),
     tokenAddresses |-> Dedupe(Slice(instruction.accounts, 6)),
     variant |-> "create"]

parseClose(instruction) ==
    [address |-> At(instruction.accounts, 1), variant |-> "close"]

\* the synthetic instruction with the whole slice kept as its innerInstructions
CpiInstructionOverWholeSlice(innerInstructions) ==
    [programId |-> innerInstructions[1].programId,
     accounts |-> innerInstructions[1].accounts,
     data |-> innerInstructions[1].data,
     innerInstructions |-> innerInstructions]

\* { ...innerInstructions[0], innerInstructions: innerInstructions.slice(1) }
CpiInstruction(innerInstructions) ==
    [programId |-> innerInstructions[1].programId,
     accounts |-> innerInstructions[1].accounts,
     data |-> innerInstructions[1].data,
     innerInstructions |-> Slice(innerInstructions, 1)]

parseSwapCpi(innerInstructions, tokenTransfers, decimalsTable) ==
    parseSwap(CpiInstruction(innerInstructions), tokenTransfers, decimalsTable)

parseDepositCpi(innerInstructions, tokenTransfers, decimalsTable) ==
    parseDeposit(CpiInstruction(innerInstructions), tokenTransfers, decimalsTable)

\* parseWithdrawCpi on the slice cut off in front of the next AMM operation
parseWithdrawCpiUpToNextOperation(innerInstructions, tokenTransfers, decimalsTable) ==
    LET later == {k \in 2..Len(innerInstructions) :
                     getTransactionVariant(innerInstructions[k]) # Null}
        end == IF later = {} THEN Len(innerInstructions)
               ELSE (CHOOSE k \in later : \A j \in later : k <= j) - 1
    IN  parseWithdraw(CpiInstruction(SubSeq(innerInstructions, 1, end)),
                      tokenTransfers, decimalsTable)

parseWithdrawCpi(innerInstructions, tokenTransfers, decimalsTable) ==
    parseWithdraw(CpiInstruction(innerInstructions), tokenTransfers, decimalsTable)

parseCreateCpi(innerInstructions) == parseCreate(CpiInstruction(innerInstructions))

---------------------------------------------------------------------------
(* The inputs: instructions, transfer lists, balance changes, tables *)

\* UI amount raw / 10^decimals of an enriched transfer record
Ui(raw, decimals) == raw * Pow10(UiScale - decimals)

TokenPayload(head, len, amount) == [head |-> head, len |-> len, amount |-> amount]

\* an operation payload: the 8-byte discriminator, then the arguments
OpPayload(head) == [head |-> head, len |-> 24, amount |-> 0]

Inner(programId, accounts, data) ==
    [programId |-> programId, accounts |-> accounts, data |-> data]

\* Transfer 1 of mint A, user -> vault (unchecked)
TrIn == Inner(TOKEN_PROGRAM_ADDRESS, <<"userTokA", "vaultTokA", "user">>,
              TokenPayload("03", 9, 1))
\* TransferChecked 2 of mint B, vault -> user
TrOut == Inner(TOKEN_2022_PROGRAM_ADDRESS,
               <<"vaultTokB", "mintB", "userTokB", "vaultAuth">>,
               TokenPayload("0c", 10, 2))
\* Transfer 0, vault -> beneficiary (unchecked)
TrZero == Inner(TOKEN_PROGRAM_ADDRESS, <<"vaultTokB", "feeTokB", "vaultAuth">>,
                TokenPayload("03", 9, 0))
\* MintTo 1 of the LP mint to the user
MintLp == Inner(TOKEN_PROGRAM_ADDRESS, <<"mintLP", "userLp", "vaultAuth">>,
                TokenPayload("07", 9, 1))
\* Burn 1 of the LP mint from the user
BurnLp == Inner(TOKEN_PROGRAM_ADDRESS, <<"userLp", "mintLP", "user">>,
                TokenPayload("08", 9, 1))
\* a bookkeeping instruction of the vault program, shorter than 8 bytes
Other == Inner("vaultProgram", <<"vault">>, TokenPayload("a1b2", 2, 0))

TokenAlphabet == {TrIn, TrOut, TrZero, MintLp, BurnLp, Other}

SwapAccounts ==
    <<"user", "userTokA", "userTokB", "vaultTokA", "vaultTokB", "beneficiary",
      "pool", "withdrawAuth", "vault">>
SwapV2Accounts ==
    <<"user", "mintA", "mintB", "userTokA", "userTokB", "vaultTokA", "vaultTokB",
      "beneficiary", "pool2", "vault", TOKEN_PROGRAM_ADDRESS,
      TOKEN_2022_PROGRAM_ADDRESS>>
LiquidityAccounts == <<"user", "userLp", "mintLP", "pool", "vault">>
CreateAccounts ==
    <<"owner", "mintLP", "pool", "poolAuth", "withdrawAuth", "vault",
      "mintA", "mintB", "mintA">>
CloseAccounts == <<"owner", "pool">>

SwapOp == Inner(WEIGHTED_SWAP_ADDRESS, SwapAccounts, OpPayload("f8c69e91e17587c8"))
SwapV2Op == Inner(STABLE_SWAP_ADDRESS, SwapV2Accounts, OpPayload("2b04ed0b1ac91e62"))
DepositOp == Inner(STABLE_SWAP_ADDRESS, LiquidityAccounts, OpPayload("f223c68952e1f2b6"))
WithdrawOp == Inner(WEIGHTED_SWAP_ADDRESS, LiquidityAccounts, OpPayload("b712469c946da122"))
CreateOp == Inner(WEIGHTED_SWAP_ADDRESS, CreateAccounts, OpPayload("afaf6d1f0d989bed"))
CloseOp == Inner(STABLE_SWAP_ADDRESS, CloseAccounts, OpPayload("92ccf1d55615fdd3"))
\* an AMM-program instruction whose discriminator is not in the table
UnknownOp == Inner(WEIGHTED_SWAP_ADDRESS, SwapAccounts, OpPayload("0000000000000000"))
\* an instruction of an unrelated program (an aggregator routing through the AMM)
RouterOp == Inner("routerProgram", <<"user", "pool">>, OpPayload("f8c69e91e17587c8"))

\* an AMM-program instruction whose payload is shorter than 8 bytes
ShortOp == Inner(WEIGHTED_SWAP_ADDRESS, SwapAccounts, TokenPayload("f8c69e91", 4, 0))
\* the Swap discriminator on an accounts list that holds the token-2022 program
SwapOpWith2022 ==
    Inner(WEIGHTED_SWAP_ADDRESS, SwapV2Accounts, OpPayload("f8c69e91e17587c8"))
\* the SwapV2 discriminator on an accounts list without the token-2022 program
SwapV2OpWithout2022 ==
    Inner(STABLE_SWAP_ADDRESS, SwapAccounts, OpPayload("2b04ed0b1ac91e62"))

\* the operations whose parsers walk a body of inner instructions
WalkingOps == {SwapOp, DepositOp, WithdrawOp}
AllOps == {SwapOp, SwapV2Op, DepositOp, WithdrawOp, CreateOp, CloseOp}
CpiAlphabet == {SwapOp, DepositOp, WithdrawOp, CreateOp, CloseOp, TrIn, TrOut, Other}

\* all sequences over `alphabet` of length at most n
SeqsUpTo(alphabet, n) == UNION {[1..k -> alphabet] : k \in 0..n}

Top(op, innerInstructions) ==
    [programId |-> op.programId, accounts |-> op.accounts, data |-> op.data,
     innerInstructions |-> innerInstructions]

\* a directly invoked operation and its body of inner instructions
DirectInstructions ==
    {Top(op, body) : op \in WalkingOps, body \in SeqsUpTo(TokenAlphabet, MaxInner)}

\* an operation invoked by the router, followed by its body
CpiInstructions ==
    {Top(RouterOp, <<op>> \o body) :
        op \in WalkingOps, body \in SeqsUpTo(TokenAlphabet, MaxCpi)}

\* any short inner list under the router or an unknown AMM instruction
MixedInstructions ==
    {Top(op, inner) : op \in {RouterOp, UnknownOp}, inner \in SeqsUpTo(CpiAlphabet, MaxCpi)}

\* a few instructions of each kind, for the transactions that vary everything else
SmallInstructions ==
    {Top(SwapOp, <<TrIn, Other, TrOut>>),
     Top(SwapV2Op, <<TrIn, Other, TrOut, TrOut>>),
     Top(SwapOp, <<TrIn>>),
     Top(DepositOp, <<TrIn, MintLp>>),
     Top(WithdrawOp, <<BurnLp, Other, TrOut>>),
     Top(WithdrawOp, <<TrZero, BurnLp>>),
     Top(CreateOp, <<Other>>),
     Top(CloseOp, <<>>),
     Top(RouterOp, <<CreateOp, DepositOp, TrOut>>),
     Top(RouterOp, <<Other, SwapOp, TrIn, Other, TrOut>>),
     Top(ShortOp, <<ShortOp, SwapOp, TrIn, Other, TrOut>>),
     Top(SwapOpWith2022, <<TrIn, Other, TrOut>>),
     Top(SwapV2OpWithout2022, <<TrIn, Other, TrZero, TrOut>>)}

Transfer(fromUser, toUser, fromToken, toToken, tokenAmount, mint) ==
    [fromUserAccount |-> fromUser, toUserAccount |-> toUser,
     fromTokenAccount |-> fromToken, toTokenAccount |-> toToken,
     tokenAmount |-> tokenAmount, mint |-> mint]

TransferInA == Transfer("user", "vaultAuth", "userTokA", "vaultTokA", Ui(1, 1), "mintA")
TransferOutB == Transfer("vaultAuth", "user", "vaultTokB", "userTokB", Ui(2, 2), "mintB")
TransferMintLp == Transfer(Null, "user", Null, "userLp", Ui(1, 1), "mintLP")
TransferBurnLp == Transfer("user", Null, "userLp", Null, Ui(1, 1), "mintLP")
\* a zero transfer at the account positions of TrZero
TransferZeroB == Transfer("vaultAuth", "beneficiary", "vaultTokB", "feeTokB", 0, "mintB")

\* a second transfer of the same amount between the token accounts of TransferInA,
\* signed by a delegate
TransferInAByDelegate ==
    Transfer("delegate", "vaultAuth", "userTokA", "vaultTokA", Ui(1, 1), "mintA")

FullTransfers ==
    <<TransferInA, TransferOutB, TransferMintLp, TransferBurnLp, TransferInAByDelegate>>

TransferLists ==
    {FullTransfers,
     <<>>,
     <<TransferInA, TransferMintLp, TransferBurnLp>>,
     <<TransferZeroB>> \o FullTransfers}

Change(mint, hasRawTokenAmount, decimals) ==
    [mint |-> mint, hasRawTokenAmount |-> hasRawTokenAmount, decimals |-> decimals]

Account(hasTokenBalanceChanges, tokenBalanceChanges) ==
    [hasTokenBalanceChanges |-> hasTokenBalanceChanges,
     tokenBalanceChanges |-> tokenBalanceChanges]

AccountDatas ==
    {<<>>,
     <<Account(FALSE, <<>>), Account(TRUE, <<Change("mintB", TRUE, 2)>>)>>,
     <<Account(TRUE, <<Change("mintB", TRUE, 1), Change("mintA", FALSE, 0)>>)>>,
     <<Account(TRUE, <<Change("mintLP", TRUE, 0), Change("mintB", TRUE, 1)>>),
       Account(TRUE, <<Change("mintB", TRUE, 2)>>)>>,
     <<Account(TRUE, <<Change("mintB", TRUE, 0)>>)>>}

Tx(signature, instructions, tokenTransfers, accountData) ==
    [signature |-> signature, instructions |-> instructions,
     tokenTransfers |-> tokenTransfers, accountData |-> accountData]

\* one instruction with the full transfer list and no balance changes
MainTransactions ==
    {Tx("sigMain", <<instruction>>, FullTransfers, <<>>) :
        instruction \in DirectInstructions \cup CpiInstructions \cup MixedInstructions}

\* up to two instructions, every transfer list and every balance-change record
SmallTransactions ==
    {Tx("sigSmall", instructions, tokenTransfers, accountData) :
        instructions \in SeqsUpTo(SmallInstructions, 2),
        tokenTransfers \in TransferLists,
        accountData \in AccountDatas}

Transactions == MainTransactions \cup SmallTransactions

FullTable == [mint \in {"mintA", "mintB", "mintLP"} |-> IF mint = "mintB" THEN 2 ELSE 1]
TableWithoutB == [mint \in {"mintA", "mintLP"} |-> 1]

BaselineTables == {FullTable, TableWithoutB}

---------------------------------------------------------------------------
(* parseTransaction *)

Log(signature, instructionIndex, parentProgramId, programId) ==
    [signature |-> signature, instructionIndex |-> instructionIndex,
     parentProgramId |-> parentProgramId, programId |-> programId]

\* the caller's three output collections
Collections(activityLogs, createLogs, closeLogs) ==
    [poolActivities |-> activityLogs, creates |-> createLogs, closes |-> closeLogs]

EmptyCollections == Collections(<<>>, <<>>, <<>>)

\* records an earlier call on another transaction left in the collections
PriorActivity ==
    Log("sigPrior", 2001, "routerProgram", WEIGHTED_SWAP_ADDRESS)
        @@ PositiveActivity("pool", WithRawAmount(FullTransfers, 1, 1), "user", "swap")
PriorCreate == Log("sigPrior", 0, Null, WEIGHTED_SWAP_ADDRESS) @@ parseCreate(CreateOp)
PriorClose == Log("sigPrior", 1000, Null, STABLE_SWAP_ADDRESS) @@ parseClose(CloseOp)

\* the collections as the caller passes them: fresh, or holding earlier records
PriorCollections ==
    {EmptyCollections, Collections(<<PriorActivity>>, <<PriorCreate>>, <<PriorClose>>)}

NoTransaction == Tx("", <<>>, <<>>, <<>>)
NoParse == [kind |-> Null]

\* lastParse after an operation parser was called on `instruction`, the top-level
\* instruction at `index` (cursor -1) or the one made of the inner slice at `cursor`
Parsed(kind, cursor, instruction, result) ==
    [kind |-> kind, index |-> index, cursor |-> cursor,
     instruction |-> instruction, result |-> result]

\* map[mint] = decimals
Put(map, mint, decimals) ==
    [m \in DOMAIN map \cup {mint} |-> IF m = mint THEN decimals ELSE map[m]]

\* accountData.filter((data) => data.tokenBalanceChanges)
\*            .flatMap((data) => data.tokenBalanceChanges)
RECURSIVE FlatChanges(_)
FlatChanges(accountData) ==
    IF accountData = <<>> THEN <<>>
    ELSE (IF Head(accountData).hasTokenBalanceChanges
          THEN Head(accountData).tokenBalanceChanges ELSE <<>>)
         \o FlatChanges(Tail(accountData))

\* the test of the record without the truthiness of the decimals value
CarriesRawTokenAmount(change) == change.hasRawTokenAmount

\* change && change.rawTokenAmount && change.rawTokenAmount.decimals
CarriesDecimals(change) == change.hasRawTokenAmount /\ change.decimals # 0

\* .reduce((map, change) => { ... }, mintDecimals): the table itself is the accumulator
RECURSIVE ReduceChanges(_, _)
ReduceChanges(changes, map) ==
    IF changes = <<>> THEN map
    ELSE ReduceChanges(Tail(changes),
             IF CarriesDecimals(Head(changes))
             THEN Put(map, Head(changes).mint, Head(changes).decimals)
             ELSE map)

ConfidentMintDecimals(tx, table) == ReduceChanges(FlatChanges(tx.accountData), table)

\* the filter that lets every transfer pass
HasAnyDecimals(transfer, table) == TRUE

HasConfidentDecimals(transfer, table) == transfer.mint \in DOMAIN table

\* transaction.tokenTransfers?.filter((transfer) => table[transfer.mint] !== undefined) || []
TokenTransfers(tx, table) ==
    LET Keep(transfer) == HasConfidentDecimals(transfer, table)
    IN  SelectSeq(tx.tokenTransfers, Keep)

Instruction == transaction.instructions[index + 1]
InstructionOffset == index * 1000

\* activities.map((activity) => ({ signature, instructionIndex, ..., ...activity }))
TagAll(records, log) == [k \in 1..Len(records) |-> log @@ records[k]]

TopLog == Log(transaction.signature, InstructionOffset, Null, Instruction.programId)

CpiLog ==
    Log(transaction.signature, InstructionOffset + i, Instruction.programId,
        Instruction.innerInstructions[i + 1].programId)

\* the tags of a create found by the CPI scan
CpiCreateLog == Log(transaction.signature, InstructionOffset, Null, Instruction.programId)

Init ==
    /\ transaction = NoTransaction
    /\ mintDecimals \in BaselineTables
    /\ tableAtCall = mintDecimals
    /\ collectionsAtCall = EmptyCollections
    /\ poolActivities = <<>>
    /\ creates = <<>>
    /\ closes = <<>>
    /\ pc = "idle"
    /\ index = 0
    /\ i = 0
    /\ lastCursor = -1
    /\ error = Null
    /\ lastParse = NoParse

\* the caller calls parseTransaction with a transaction, its table and its collections
Call ==
    /\ pc = "idle"
    /\ \E tx \in Transactions, prior \in PriorCollections :
           \* the one-instruction transactions are parsed into fresh collections
           /\ tx \in MainTransactions => prior = EmptyCollections
           /\ transaction' = tx
           /\ collectionsAtCall' = prior
           /\ poolActivities' = prior.poolActivities
           /\ creates' = prior.creates
           /\ closes' = prior.closes
    /\ pc' = "loop"
    /\ index' = 0
    /\ UNCHANGED <<mintDecimals, tableAtCall, i, lastCursor, error, lastParse>>

AtInstruction == pc = "loop" /\ index < Len(transaction.instructions)

\* TopActivities with the collection put back to what the caller passed on a throw
TopActivitiesRollingBack(kind, result) ==
    /\ mintDecimals' = ConfidentMintDecimals(transaction, mintDecimals)
    /\ lastParse' = Parsed(kind, -1, Instruction, result)
    /\ IF result.status = "ok"
       THEN /\ poolActivities' = poolActivities \o TagAll(result.activities, TopLog)
            /\ index' = index + 1
            /\ UNCHANGED <<pc, error>>
       ELSE /\ pc' = "raised"
            /\ error' = result.status
            /\ poolActivities' = collectionsAtCall.poolActivities
            /\ UNCHANGED index
    /\ UNCHANGED <<transaction, tableAtCall, collectionsAtCall, creates, closes, i,
                   lastCursor>>

\* a directly classified Swap, Deposit or Withdraw: push the activities or throw
TopActivities(kind, result) ==
    /\ mintDecimals' = ConfidentMintDecimals(transaction, mintDecimals)
    /\ lastParse' = Parsed(kind, -1, Instruction, result)
    /\ IF result.status = "ok"
       THEN /\ poolActivities' = poolActivities \o TagAll(result.activities, TopLog)
            /\ index' = index + 1
            /\ UNCHANGED <<pc, error>>
       ELSE /\ pc' = "raised"
            /\ error' = result.status
            /\ UNCHANGED <<poolActivities, index>>
    /\ UNCHANGED <<transaction, tableAtCall, collectionsAtCall, creates, closes, i,
                   lastCursor>>

TopSwap ==
    /\ AtInstruction
    /\ getTransactionVariant(Instruction) \in {"swap", "swap_v2"}
    /\ LET table == ConfidentMintDecimals(transaction, mintDecimals)
       IN  TopActivities("swap",
               parseSwap(Instruction, TokenTransfers(transaction, table), table))

TopDeposit ==
    /\ AtInstruction
    /\ getTransactionVariant(Instruction) = "deposit"
    /\ LET table == ConfidentMintDecimals(transaction, mintDecimals)
       IN  TopActivities("deposit",
               parseDeposit(Instruction, TokenTransfers(transaction, table), table))

TopWithdraw ==
    /\ AtInstruction
    /\ getTransactionVariant(Instruction) = "withdraw"
    /\ LET table == ConfidentMintDecimals(transaction, mintDecimals)
       IN  TopActivities("withdraw",
               parseWithdraw(Instruction, TokenTransfers(transaction, table), table))

TopCreate ==
    /\ AtInstruction
    /\ getTransactionVariant(Instruction) = "create"
    /\ mintDecimals' = ConfidentMintDecimals(transaction, mintDecimals)
    /\ creates' = Append(creates, TopLog @@ parseCreate(Instruction))
    /\ lastParse' = Parsed("create", -1, Instruction, Returned(<<parseCreate(Instruction)>>))
    /\ index' = index + 1
    /\ UNCHANGED <<transaction, tableAtCall, collectionsAtCall, poolActivities, closes,
                   pc, i, lastCursor, error>>

\* TopClose with the record put in front of the collection (unshift for push)
TopCloseInFront ==
    /\ AtInstruction
    /\ getTransactionVariant(Instruction) = "close"
    /\ mintDecimals' = ConfidentMintDecimals(transaction, mintDecimals)
    /\ closes' = <<TopLog @@ parseClose(Instruction)>> \o closes
    /\ lastParse' = Parsed("close", -1, Instruction, Returned(<<parseClose(Instruction)>>))
    /\ index' = index + 1
    /\ UNCHANGED <<transaction, tableAtCall, collectionsAtCall, poolActivities,
                   creates, pc, i, lastCursor, error>>

TopClose ==
    /\ AtInstruction
    /\ getTransactionVariant(Instruction) = "close"
    /\ mintDecimals' = ConfidentMintDecimals(transaction, mintDecimals)
    /\ closes' = Append(closes, TopLog @@ parseClose(Instruction))
    /\ lastParse' = Parsed("close", -1, Instruction, Returned(<<parseClose(Instruction)>>))
    /\ index' = index + 1
    /\ UNCHANGED <<transaction, tableAtCall, collectionsAtCall, poolActivities,
                   creates, pc, i, lastCursor, error>>

\* an unclassified instruction: enter the CPI scan with let i = 0
ScanStart ==
    /\ AtInstruction
    /\ getTransactionVariant(Instruction) = Null
    /\ mintDecimals' = ConfidentMintDecimals(transaction, mintDecimals)
    /\ pc' = "scan"
    /\ i' = 0
    /\ lastCursor' = -1
    /\ UNCHANGED <<transaction, tableAtCall, collectionsAtCall, poolActivities,
                   creates, closes, index, error, lastParse>>

InScan == pc = "scan" /\ i < Len(Instruction.innerInstructions)

InnerInstruction == Instruction.innerInstructions[i + 1]

\* the stride of the scan after a matched operation that produced n activities
SwapStride(n) == IF n = 3 THEN 5 ELSE 4
\* the deposit stride without the deposit instruction itself
DepositStrideOfActivities(n) == n

DepositStride(n) == n + 1
WithdrawStride(n) == n * 2

\* a Swap, Deposit or Withdraw found at cursor i: push the activities and advance, or throw
CpiActivities(kind, result, stride) ==
    /\ lastParse' = Parsed(kind, i,
                           CpiInstruction(Slice(Instruction.innerInstructions, i)), result)
    /\ IF result.status = "ok"
       THEN /\ poolActivities' = poolActivities \o TagAll(result.activities, CpiLog)
            /\ i' = i + stride
            /\ lastCursor' = i
            /\ UNCHANGED <<pc, error>>
       ELSE /\ pc' = "raised"
            /\ error' = result.status
            /\ UNCHANGED <<poolActivities, i, lastCursor>>
    /\ UNCHANGED <<transaction, mintDecimals, tableAtCall, collectionsAtCall, creates,
                   closes, index>>

ScanSwap ==
    /\ InScan
    /\ getTransactionVariant(InnerInstruction) \in {"swap", "swap_v2"}
    /\ LET result == parseSwapCpi(Slice(Instruction.innerInstructions, i),
                                  TokenTransfers(transaction, mintDecimals), mintDecimals)
       IN  CpiActivities("swap", result, SwapStride(Len(result.activities)))

ScanDeposit ==
    /\ InScan
    /\ getTransactionVariant(InnerInstruction) = "deposit"
    /\ LET result == parseDepositCpi(Slice(Instruction.innerInstructions, i),
                                     TokenTransfers(transaction, mintDecimals), mintDecimals)
       IN  CpiActivities("deposit", result, DepositStride(Len(result.activities)))

ScanWithdraw ==
    /\ InScan
    /\ getTransactionVariant(InnerInstruction) = "withdraw"
    /\ LET result == parseWithdrawCpi(Slice(Instruction.innerInstructions, i),
                                      TokenTransfers(transaction, mintDecimals), mintDecimals)
       IN  CpiActivities("withdraw", result, WithdrawStride(Len(result.activities)))

\* case CREATE pushes and falls through to default: i++
ScanCreate ==
    /\ InScan
    /\ getTransactionVariant(InnerInstruction) = "create"
    /\ creates' = Append(creates,
                      CpiCreateLog @@ parseCreateCpi(Slice(Instruction.innerInstructions, i)))
    /\ lastParse' = Parsed("create", i,
                           CpiInstruction(Slice(Instruction.innerInstructions, i)),
                           Returned(<<parseCreateCpi(Slice(Instruction.innerInstructions, i))>>))
    /\ i' = i + 1
    /\ lastCursor' = i
    /\ UNCHANGED <<transaction, mintDecimals, tableAtCall, collectionsAtCall,
                   poolActivities, closes, pc, index, error>>

\* the default case with a record pushed to closes for an inner Close
ScanDefaultRecordingClose ==
    /\ InScan
    /\ getTransactionVariant(InnerInstruction) \in {Null, "close"}
    /\ closes' = IF getTransactionVariant(InnerInstruction) = "close"
                 THEN Append(closes, CpiLog @@ parseClose(InnerInstruction))
                 ELSE closes
    /\ i' = i + 1
    /\ lastCursor' = i
    /\ UNCHANGED <<transaction, mintDecimals, tableAtCall, collectionsAtCall,
                   poolActivities, creates, pc, index, error, lastParse>>

\* default: i++ (no operation at the cursor, or a Close)
ScanDefault ==
    /\ InScan
    /\ getTransactionVariant(InnerInstruction) \in {Null, "close"}
    /\ i' = i + 1
    /\ lastCursor' = i
    /\ UNCHANGED <<transaction, mintDecimals, tableAtCall, collectionsAtCall,
                   poolActivities, creates, closes, pc, index, error, lastParse>>

\* the while loop ends: index++
ScanExit ==
    /\ pc = "scan"
    /\ i >= Len(Instruction.innerInstructions)
    /\ pc' = "loop"
    /\ index' = index + 1
    /\ UNCHANGED <<transaction, mintDecimals, tableAtCall, collectionsAtCall,
                   poolActivities, creates, closes, i, lastCursor, error, lastParse>>

\* the for loop ends: parseTransaction returns
Return ==
    /\ pc = "loop"
    /\ index = Len(transaction.instructions)
    /\ pc' = "done"
    /\ UNCHANGED <<transaction, mintDecimals, tableAtCall, collectionsAtCall,
                   poolActivities, creates, closes, index, i, lastCursor, error,
                   lastParse>>

\* the caller takes the results (or the exception) and keeps the table for its next call
Release ==
    /\ pc \in {"done", "raised"}
    /\ pc' = "idle"
    /\ transaction' = NoTransaction
    /\ poolActivities' = <<>>
    /\ creates' = <<>>
    /\ closes' = <<>>
    /\ index' = 0
    /\ i' = 0
    /\ lastCursor' = -1
    /\ error' = Null
    /\ lastParse' = NoParse
    /\ tableAtCall' = mintDecimals
    /\ collectionsAtCall' = EmptyCollections
    /\ UNCHANGED mintDecimals

Next ==
    \/ Call
    \/ TopSwap
    \/ TopDeposit
    \/ TopWithdraw
    \/ TopCreate
    \/ TopClose
    \/ ScanStart
    \/ ScanSwap
    \/ ScanDeposit
    \/ ScanWithdraw
    \/ ScanCreate
    \/ ScanDefault
    \/ ScanExit
    \/ Return
    \/ Release

Spec == Init /\ [][Next]_vars

---------------------------------------------------------------------------
(* Properties *)

\* the operation parser of `kind` was the last one called and it returned
ParsedOk(kind) == lastParse.kind = kind /\ lastParse.result.status = "ok"

\* the transfer the last parsed instruction's k-th inner instruction reconciles to
LastLeg(k) ==
    getTokenTransferFromInnerInstruction(
        TokenTransfers(transaction, mintDecimals),
        lastParse.instruction.innerInstructions[k], mintDecimals)

\* C1: in the activities of a successfully parsed swap the input leg (inner
\* instruction 0) comes before the beneficiary-fee leg, when there is one, and
\* the fee leg before the output leg.
C1_InputBeforeFeeBeforeOutput ==
    ParsedOk("swap") =>
        LET instruction == lastParse.instruction
            inner == instruction.innerInstructions
            acts == lastParse.result.activities
            fee == HasBeneficiaryLeg(inner)
        IN  \E a, o \in 1..Len(acts) :
                /\ a < o
                /\ acts[a] = SwapInputLeg(instruction, LastLeg(1))
                /\ acts[o] = SwapOutputLeg(instruction, LastLeg(IF fee THEN 4 ELSE 3))
                /\ fee => \E f \in 1..Len(acts) :
                              /\ a < f /\ f < o
                              /\ acts[f] = SwapFeeLeg(instruction, LastLeg(3))

\* C2: every iteration of the CPI scan leaves the cursor strictly greater than
\* the index it classified, whatever was matched and however many activities
\* the parser returned, so no inner index is classified twice.
C2_CursorStrictlyIncreases == pc = "scan" => lastCursor < i

\* C3: a parseTransaction call on a finite transaction terminates: every step
\* of a call in progress that does not end it makes progress through the
\* transaction (a later top-level instruction, the start of an instruction's
\* scan, or a later inner index), so the call returns or raises after finitely
\* many steps.
C3_CallTerminates ==
    [][(pc \in {"loop", "scan"} /\ pc' \in {"loop", "scan"}) =>
          \/ index' > index
          \/ index' = index /\ pc = "loop" /\ pc' = "scan"
          \/ index' = index /\ pc = "scan" /\ pc' = "scan" /\ i' > i]_vars

\* C4: when the call raises TokenTransferNotFound while parsing top-level
\* instruction k, the records the call added to the output collections hold no
\* record of instruction k (found directly or by the CPI scan) nor of a later
\* instruction.
C4_NoRecordOfFailedInstruction ==
    (pc = "raised" /\ error = TokenTransferNotFound) =>
        /\ \A k \in (Len(collectionsAtCall.poolActivities) + 1)..Len(poolActivities) :
               poolActivities[k].instructionIndex \div 1000 < index
        /\ \A k \in (Len(collectionsAtCall.creates) + 1)..Len(creates) :
               creates[k].instructionIndex \div 1000 < index
        /\ \A k \in (Len(collectionsAtCall.closes) + 1)..Len(closes) :
               closes[k].instructionIndex \div 1000 < index

\* C5: once a mint has a decimals value in the table the value
\* never changes; calls add mints and never replace an entry.
C5_EntriesNeverChange ==
    [][\A mint \in DOMAIN mintDecimals :
          /\ mint \in DOMAIN mintDecimals'
          /\ mintDecimals'[mint] = mintDecimals[mint]]_vars

\* the records the last parser call appended to `collection`
LastAppended(collection) ==
    SubSeq(collection, Len(collection) - Len(lastParse.result.activities) + 1,
           Len(collection))

\* C6: every record the CPI scan produces at inner index j of top-level
\* instruction i (Swap, Deposit, Withdraw, Create) carries parentProgramId = the
\* outer programId, programId = innerInstructions[j].programId and
\* instructionIndex = i*1000 + j; a record of a directly classified top-level
\* instruction, and only such a record, has parentProgramId null.
C6_CpiRecordsTagged ==
    (lastParse.kind \in {"swap", "deposit", "withdraw", "create"}
        /\ lastParse.result.status = "ok") =>
        LET outer == transaction.instructions[lastParse.index + 1]
            j == lastParse.cursor
            records == LastAppended(IF lastParse.kind = "create"
                                    THEN creates ELSE poolActivities)
        IN  \A k \in 1..Len(records) :
                IF j >= 0
                THEN /\ records[k].parentProgramId = outer.programId
                     /\ records[k].programId = outer.innerInstructions[j + 1].programId
                     /\ records[k].instructionIndex = lastParse.index * 1000 + j
                ELSE /\ records[k].parentProgramId = Null
                     /\ records[k].programId = outer.programId
                     /\ records[k].instructionIndex = lastParse.index * 1000

\* the legs of `activities` whose amountU64 carries the minus sign, or does not
LegsWithSign(activities, minus) ==
    {k \in 1..Len(activities) : activities[k].amountU64.minus = minus}

\* C7 (as stated): a successfully parsed Deposit or Withdraw emits its
\* reconciled transfers plus exactly one terminal leg: one MintTo leg (the
\* negative one) for Deposit, one Burn leg (the positive one) for Withdraw.
C7_ExactlyOneTerminalLeg ==
    /\ ParsedOk("deposit") =>
           Cardinality(LegsWithSign(lastParse.result.activities, TRUE)) = 1
    /\ ParsedOk("withdraw") =>
           Cardinality(LegsWithSign(lastParse.result.activities, FALSE)) = 1

\* the 1-based position of the first inner instruction that reconciles as a
\* MintTo, 0 for none
FirstMintTo(inner) ==
    FindFirst([k \in 1..Len(inner) |->
        ~getTokenMintToFromInnerInstruction(
             TokenTransfers(transaction, mintDecimals), inner[k], mintDecimals).isNull])

\* C7 (amended): a successfully parsed Deposit emits one activity for each inner
\* instruction it walked, which are all of them or those up to and including
\* the first that reconciles as a MintTo, with at most one MintTo leg, which is
\* then the last; a successfully parsed Withdraw emits one activity for each
\* token-program inner instruction, with any number of Burn legs.
C7_OneActivityPerWalkedInstruction ==
    /\ ParsedOk("deposit") =>
           LET inner == lastParse.instruction.innerInstructions
               acts == lastParse.result.activities
               stop == FirstMintTo(inner)
           IN  /\ Len(acts) = IF stop = 0 THEN Len(inner) ELSE stop
               /\ LegsWithSign(acts, TRUE) = IF stop = 0 THEN {} ELSE {Len(acts)}
    /\ ParsedOk("withdraw") =>
           Len(lastParse.result.activities) =
               Len(TokenInstructions(lastParse.instruction.innerInstructions))

\* a deposit of two transfers and the MintTo was parsed
C7_Witness ==
    /\ ParsedOk("deposit")
    /\ Len(lastParse.result.activities) = 3
    /\ LegsWithSign(lastParse.result.activities, TRUE) = {3}

\* C8: whatever the instruction's shape, a call that ends abnormally raised an
\* error of the documented taxonomy: TokenTransferNotFound or a decode failure.
C8_OnlyDocumentedErrors ==
    pc = "raised" => error \in {TokenTransferNotFound, "DecodeFailure"}

\* a 9-byte unchecked transfer payload whose amount is zero
ZeroUnchecked(innerInstruction) ==
    innerInstruction.data.len = 9 /\ innerInstruction.data.amount = 0

\* C10: a 9-byte unchecked transfer payload with amount zero reconciles to the
\* empty-transfer sentinel whatever the transfer list holds (the transaction's
\* list, its filtered list, no list), and the inner instruction on which a
\* Swap, Deposit or Withdraw raised TokenTransferNotFound is never such a leg.
C10_ZeroTransferIsEmptySentinel ==
    /\ \A t \in 1..Len(transaction.instructions) :
           LET inner == transaction.instructions[t].innerInstructions
           IN  \A k \in 1..Len(inner) :
                   ZeroUnchecked(inner[k]) =>
                       \A list \in {transaction.tokenTransfers, <<>>,
                                     TokenTransfers(transaction, mintDecimals)} :
                           getTokenTransferFromInnerInstruction(
                               list, inner[k], mintDecimals) = EMPTY_TOKEN_TRANSFER
    /\ (pc = "raised" /\ error = TokenTransferNotFound) =>
           ~ZeroUnchecked(lastParse.result.failedOn)

\* a withdraw whose zero-amount leg was emitted from the sentinel although the
\* transfer list holds a zero transfer at the leg's accounts
C10_Witness ==
    /\ ParsedOk("withdraw")
    /\ \E k \in 1..Len(transaction.tokenTransfers) :
           transaction.tokenTransfers[k] = TransferZeroB
    /\ \E k \in 1..Len(lastParse.result.activities) :
           /\ lastParse.result.activities[k].tokenAddress = ""
           /\ lastParse.result.activities[k].amount = 0

\* the instructions of the transaction, top-level and inner
AllInstructions ==
    UNION {{transaction.instructions[t]}
           \cup {transaction.instructions[t].innerInstructions[k] :
                    k \in 1..Len(transaction.instructions[t].innerInstructions)} :
           t \in 1..Len(transaction.instructions)}

IsAmmProgram(instruction) ==
    instruction.programId \in {WEIGHTED_SWAP_ADDRESS, STABLE_SWAP_ADDRESS}

\* the hex renderings of the six 8-byte prefixes the discriminator table holds
TableKeys ==
    {"afaf6d1f0d989bed", "92ccf1d55615fdd3", "f8c69e91e17587c8", "2b04ed0b1ac91e62",
     "f223c68952e1f2b6", "b712469c946da122"}

\* C11: getTransactionVariant gives none for every instruction of a program
\* other than the two AMM programs, whatever its payload, and for every
\* AMM-program payload whose first 8 bytes (or fewer, for a shorter payload) are
\* not a key of the discriminator table; the operation instruction of every
\* parser call the walker makes is an AMM-program instruction with a table key.
C11_UnrecognizedIsNeverParsed ==
    /\ \A instruction \in AllInstructions :
           (~IsAmmProgram(instruction) \/ instruction.data.head \notin TableKeys) =>
               getTransactionVariant(instruction) = Null
    /\ lastParse.kind # Null =>
           /\ IsAmmProgram(lastParse.instruction)
           /\ lastParse.instruction.data.head \in TableKeys

\* the scan stepped over an AMM-program payload shorter than 8 bytes and over
\* nothing else so far, under a top-level instruction of the same kind, and no
\* parser was called
C11_Witness ==
    /\ pc = "scan"
    /\ lastCursor = 0
    /\ i = 1
    /\ Instruction = Top(ShortOp, <<ShortOp, SwapOp, TrIn, Other, TrOut>>)
    /\ lastParse = NoParse

\* the collection of the given name as it is now
Collection(name) ==
    CASE name = "poolActivities" -> poolActivities
      [] name = "creates" -> creates
      [] name = "closes" -> closes

\* the records this call added to the collection of the given name
AddedTo(name) ==
    SubSeq(Collection(name), Len(collectionsAtCall[name]) + 1, Len(Collection(name)))

\* the collection that receives the records of an operation of `kind`
TargetOf(kind) ==
    IF kind = "create" THEN "creates" ELSE IF kind = "close" THEN "closes"
    ELSE "poolActivities"

\* the records this call added before those of its last parser call
AddedEarlier(name) ==
    IF name = TargetOf(lastParse.kind)
    THEN SubSeq(AddedTo(name), 1, Len(AddedTo(name)) - Len(lastParse.result.activities))
    ELSE AddedTo(name)

\* C12: the key topLevelIndex*1000 + innerOffset is injective: the records of
\* the operation the walker found last carry an instructionIndex that no record
\* of an operation found earlier in the call, at another position, carries.
C12_InstructionIndexIsInjective ==
    (lastParse.kind # Null /\ lastParse.result.status = "ok") =>
        LET last == LastAppended(Collection(TargetOf(lastParse.kind)))
        IN  \A name \in {"poolActivities", "creates", "closes"} :
                \A e \in 1..Len(AddedEarlier(name)), r \in 1..Len(last) :
                    AddedEarlier(name)[e].instructionIndex # last[r].instructionIndex

IsPrefix(a, b) == Len(a) <= Len(b) /\ SubSeq(b, 1, Len(a)) = a

\* parser call p was made at an earlier position of the transaction than q: an
\* earlier top-level instruction, or the same one and an earlier inner index
PositionBefore(p, q) ==
    \/ p.index < q.index
    \/ p.index = q.index /\ p.cursor < q.cursor

\* `after` is `before` with the records of the last parser call appended
AppendsLastParse(before, after, parse) ==
    /\ Len(after) = Len(before) + Len(parse.result.activities)
    /\ \A k \in 1..Len(parse.result.activities) :
           \A field \in DOMAIN parse.result.activities[k] :
               after[Len(before) + k][field] = parse.result.activities[k][field]

\* C13: a call only appends to the three output collections: what the caller
\* passed stays an unchanged prefix, every step of the call leaves each
\* collection as it is or appends to it the records of the operation it has
\* just parsed, and the operations are parsed at ascending positions (top-level
\* index, then inner index), so the appended records are in instruction order.
C13_AppendOnlyInInstructionOrder ==
    [][/\ pc' # "idle" =>
            /\ IsPrefix(collectionsAtCall'.poolActivities, poolActivities')
            /\ IsPrefix(collectionsAtCall'.creates, creates')
            /\ IsPrefix(collectionsAtCall'.closes, closes')
       /\ pc # "idle" /\ pc' # "idle" =>
            /\ IsPrefix(poolActivities, poolActivities')
            /\ IsPrefix(creates, creates')
            /\ IsPrefix(closes, closes')
            /\ lastParse' # lastParse =>
                  lastParse.kind = Null \/ PositionBefore(lastParse, lastParse')
            /\ <<poolActivities, creates, closes>>' # <<poolActivities, creates, closes>> =>
                  /\ lastParse' # lastParse
                  /\ lastParse'.kind # Null
                  /\ \A name \in {"poolActivities", "creates", "closes"} :
                        IF name = TargetOf(lastParse'.kind)
                        THEN AppendsLastParse(Collection(name), Collection(name)',
                                              lastParse')
                        ELSE Collection(name)' = Collection(name)]_vars

\* a call on collections that held earlier records returned after adding two
\* operations' activities and a close behind them
C13_Witness ==
    /\ pc = "done"
    /\ collectionsAtCall.poolActivities # <<>>
    /\ collectionsAtCall.closes # <<>>
    /\ Len(AddedTo("poolActivities")) >= 2
    /\ Len(AddedTo("closes")) >= 1

\* inner instructions 2 and 3 (0-based) of the parsed swap have the same programId
\* and the same first account
SameProgramAndFirstAccount(inner) ==
    /\ Len(inner) >= 4
    /\ inner[3].programId = inner[4].programId
    /\ At(inner[3].accounts, 0) = At(inner[4].accounts, 0)

\* C14: a successfully parsed swap has 2 or 3 activities and the last is the
\* output leg; it has 3 exactly when inner instructions 2 and 3 have the same
\* programId and first account, and then inner instruction 2 gives the fee leg
\* and inner instruction 3 the output leg; otherwise inner instruction 2 gives
\* the output leg.
C14_TwoOrThreeEndingWithOutput ==
    ParsedOk("swap") =>
        LET instruction == lastParse.instruction
            acts == lastParse.result.activities
            three == SameProgramAndFirstAccount(instruction.innerInstructions)
        IN  /\ Len(acts) \in {2, 3}
            /\ Len(acts) = 3 <=> three
            /\ acts[Len(acts)] =
                   SwapOutputLeg(instruction, LastLeg(IF three THEN 4 ELSE 3))
            /\ three => SwapFeeLeg(instruction, LastLeg(3)) \in
                            {acts[k] : k \in 1..(Len(acts) - 1)}

\* a swap with a fee leg was parsed: three activities, the output of inner
\* instruction 3 last
C14_Witness ==
    /\ ParsedOk("swap")
    /\ Len(lastParse.result.activities) = 3
    /\ SameProgramAndFirstAccount(lastParse.instruction.innerInstructions)
    /\ lastParse.result.activities[3].tokenAddress = "mintB"

\* the activities of the parsed swap all carry one pool address and one variant
OnePoolAndVariant(acts) ==
    \A k \in 1..Len(acts) :
        acts[k].address = acts[1].address /\ acts[k].variant = acts[1].variant

\* the 1-based inner position of the parsed swap's output leg
OutputPosition == IF Len(lastParse.result.activities) = 3 THEN 4 ELSE 3

\* C15 (as stated): in a successfully parsed swap the input leg has a positive
\* amount and userAddress = the matched transfer's fromUserAccount, the output
\* leg a negative amount and userAddress = the matched transfer's
\* toUserAccount, the fee leg a negative amount and userAddress null, and all
\* legs carry the same pool address and variant.
C15_SignsAndAttribution ==
    ParsedOk("swap") =>
        LET acts == lastParse.result.activities
        IN  /\ OnePoolAndVariant(acts)
            /\ \E a, o \in 1..Len(acts) :
                   /\ a # o
                   /\ acts[a].amount > 0
                   /\ acts[a].userAddress = LastLeg(1).fromUserAccount
                   /\ acts[o].amount < 0
                   /\ acts[o].userAddress = LastLeg(OutputPosition).toUserAccount
                   /\ \A f \in 1..Len(acts) \ {a, o} :
                          acts[f].amount < 0 /\ acts[f].userAddress = Null

\* an activity that carries the matched transfer's amount with the given sign:
\* amount is +tokenAmount or -tokenAmount and amountU64 the raw amount without
\* or with the minus, zero exactly for a zero-amount payload (the sentinel)
CarriesAmount(activity, transfer, innerInstruction, negated) ==
    /\ activity.tokenAddress = transfer.mint
    /\ activity.amount = IF negated THEN 0 - transfer.tokenAmount ELSE transfer.tokenAmount
    /\ activity.amountU64 = [minus |-> negated, digits |-> innerInstruction.data.amount]
    /\ IF negated THEN activity.amount <= 0 ELSE activity.amount >= 0
    /\ activity.amount = 0 <=> innerInstruction.data.amount = 0

\* C15 (amended): in a successfully parsed swap the input leg carries the
\* matched transfer's amount unnegated (positive, or zero for a zero-amount
\* payload) with userAddress = its fromUserAccount, the output leg carries its
\* transfer's amount negated (negative, or zero for a zero-amount payload) with
\* userAddress = its toUserAccount, the fee leg its transfer's amount negated
\* with userAddress null, and all legs carry the same pool address and variant.
C15_SignConventionAndAttribution ==
    ParsedOk("swap") =>
        LET acts == lastParse.result.activities
            inner == lastParse.instruction.innerInstructions
        IN  /\ OnePoolAndVariant(acts)
            /\ \E a, o \in 1..Len(acts) :
                   /\ a # o
                   /\ CarriesAmount(acts[a], LastLeg(1), inner[1], FALSE)
                   /\ acts[a].userAddress = LastLeg(1).fromUserAccount
                   /\ CarriesAmount(acts[o], LastLeg(OutputPosition),
                                    inner[OutputPosition], TRUE)
                   /\ acts[o].userAddress = LastLeg(OutputPosition).toUserAccount
                   /\ \A f \in 1..Len(acts) \ {a, o} :
                          /\ CarriesAmount(acts[f], LastLeg(3), inner[3], TRUE)
                          /\ acts[f].userAddress = Null

\* a swap with a fee leg was parsed whose legs moved tokens: the user's
\* positive input, a negative leg of nobody and the user's negative output
C15_Witness ==
    /\ ParsedOk("swap")
    /\ \E a, f, o \in 1..Len(lastParse.result.activities) :
           /\ lastParse.result.activities[a].amount > 0
           /\ lastParse.result.activities[a].userAddress = "user"
           /\ lastParse.result.activities[f].amount < 0
           /\ lastParse.result.activities[f].userAddress = Null
           /\ lastParse.result.activities[o].amount < 0
           /\ lastParse.result.activities[o].userAddress = "user"

NoLeg == [reconciled |-> FALSE]

\* what parseWithdraw must make of one token-program inner instruction: the
\* positive activity of the burn it reconciles to, else the negative activity of
\* the transfer it reconciles to, else nothing (NoLeg)
WithdrawLeg(instruction, innerInstruction) ==
    LET tokenTransfers == TokenTransfers(transaction, mintDecimals)
        burn == getTokenBurnFromInnerInstruction(
                    tokenTransfers, innerInstruction, mintDecimals)
        transfer == getTokenTransferFromInnerInstruction(
                    tokenTransfers, innerInstruction, mintDecimals)
    IN  IF ~burn.isNull
        THEN [address |-> At(instruction.accounts, 3), tokenAddress |-> burn.mint,
              userAddress |-> burn.fromUserAccount,
              amountU64 |-> [minus |-> FALSE, digits |-> burn.rawAmount],
              amount |-> burn.tokenAmount, variant |-> WithdrawVariant(instruction)]
        ELSE IF ~transfer.isNull
        THEN [address |-> At(instruction.accounts, 3), tokenAddress |-> transfer.mint,
              userAddress |-> transfer.toUserAccount,
              amountU64 |-> [minus |-> TRUE, digits |-> transfer.rawAmount],
              amount |-> 0 - transfer.tokenAmount, variant |-> WithdrawVariant(instruction)]
        ELSE NoLeg

\* the positions of the inner instructions issued by one of the two token programs
TokenPositions(inner) ==
    {k \in 1..Len(inner) :
        inner[k].programId \in {TOKEN_PROGRAM_ADDRESS, TOKEN_2022_PROGRAM_ADDRESS}}

\* C16: parseWithdraw examines exactly the inner instructions issued by one of
\* the two token programs, in order: when each reconciles as a Burn (first) or
\* else as a Transfer it returns one activity for each, the Burn's positive or
\* the Transfer's negative, none skipped; when one reconciles as neither it
\* raises TokenTransferNotFound on the first such and returns nothing.
C16_WithdrawExaminesEveryTokenInstruction ==
    lastParse.kind = "withdraw" =>
        LET instruction == lastParse.instruction
            inner == instruction.innerInstructions
            failing == {k \in TokenPositions(inner) :
                           WithdrawLeg(instruction, inner[k]) = NoLeg}
            Rank(k) == Cardinality({j \in TokenPositions(inner) : j <= k})
        IN  IF failing = {}
            THEN /\ lastParse.result.status = "ok"
                 /\ Len(lastParse.result.activities) = Cardinality(TokenPositions(inner))
                 /\ \A k \in TokenPositions(inner) :
                        lastParse.result.activities[Rank(k)] =
                            WithdrawLeg(instruction, inner[k])
            ELSE /\ lastParse.result.status = TokenTransferNotFound
                 /\ lastParse.result.activities = <<>>
                 /\ \E k \in failing :
                        /\ \A j \in failing : k <= j
                        /\ lastParse.result.failedOn = inner[k]

\* a withdraw was parsed whose first token instruction did not reconcile as a
\* Burn and gave the Transfer's negative activity, with an instruction of
\* another program passed over and the Burn's positive activity behind it
C16_Witness ==
    /\ ParsedOk("withdraw")
    /\ \E k \in 1..Len(lastParse.instruction.innerInstructions) :
           k \notin TokenPositions(lastParse.instruction.innerInstructions)
    /\ Len(lastParse.result.activities) >= 2
    /\ lastParse.result.activities[1].amountU64.minus
    /\ lastParse.result.activities[1].amount < 0
    /\ \E k \in 2..Len(lastParse.result.activities) :
           ~lastParse.result.activities[k].amountU64.minus

\* the transfers of the transaction whose mint the confident table does not hold
UnresolvedTransfers ==
    {k \in 1..Len(transaction.tokenTransfers) :
        transaction.tokenTransfers[k].mint \notin DOMAIN mintDecimals}

\* a transfer instruction that moves tokens between the token accounts of one
\* of the transaction's unresolved transfers and that no reconciler matches
\* with a transfer of a resolved mint
NeedsUnresolvedTransfer(innerInstruction) ==
    LET resolved == TokenTransfers(transaction, mintDecimals)
    IN  /\ innerInstruction.data.len \in {9, 10}
        /\ innerInstruction.data.amount # 0
        /\ \E k \in UnresolvedTransfers :
               /\ transaction.tokenTransfers[k].fromTokenAccount =
                      At(innerInstruction.accounts, 0)
               /\ transaction.tokenTransfers[k].toTokenAccount =
                      At(innerInstruction.accounts,
                         IF innerInstruction.data.len = 9 THEN 1 ELSE 2)
        /\ getTokenTransferFromInnerInstruction(
               resolved, innerInstruction, mintDecimals).isNull
        /\ getTokenBurnFromInnerInstruction(
               resolved, innerInstruction, mintDecimals).isNull
        /\ getTokenMintToFromInnerInstruction(
               resolved, innerInstruction, mintDecimals).isNull

\* the 1-based positions of the inner instructions a successful parse made
\* activities of
LegPositions ==
    LET inner == lastParse.instruction.innerInstructions
        acts == lastParse.result.activities
    IN  CASE lastParse.kind = "swap" -> {1, 3} \cup (IF Len(acts) = 3 THEN {4} ELSE {})
          [] lastParse.kind = "deposit" -> 1..Len(acts)
          [] lastParse.kind = "withdraw" -> TokenPositions(inner)
          [] OTHER -> {}

\* C17: a transfer whose mint is absent from the confident table is never
\* matched in the call: the list handed to the reconcilers holds exactly the
\* transfers of a mint the table holds, every activity of a parsed Swap, Deposit
\* or Withdraw names such a mint (or none, for the zero-amount sentinel), and an
\* operation with a leg that only an unresolved transfer could reconcile is not
\* parsed successfully: it raises TokenTransferNotFound.
C17_UnresolvedTransfersAreInvisible ==
    /\ LET handed == TokenTransfers(transaction, mintDecimals)
       IN  /\ \A k \in 1..Len(handed) : handed[k].mint \in DOMAIN mintDecimals
           /\ Len(handed) = Len(transaction.tokenTransfers)
                                - Cardinality(UnresolvedTransfers)
    /\ (lastParse.kind \in {"swap", "deposit", "withdraw"}
           /\ lastParse.result.status = "ok") =>
           /\ \A k \in 1..Len(lastParse.result.activities) :
                  lastParse.result.activities[k].tokenAddress \in DOMAIN mintDecimals \cup {""}
           /\ \A k \in LegPositions :
                  ~NeedsUnresolvedTransfer(lastParse.instruction.innerInstructions[k])
    /\ (lastParse.kind \in {"swap", "deposit", "withdraw"}
           /\ NeedsUnresolvedTransfer(lastParse.result.failedOn)) =>
           pc = "raised" /\ error = TokenTransferNotFound

\* a swap raised TokenTransferNotFound on its output leg: the transaction holds
\* the leg's transfer, of a mint the confident table does not hold
C17_Witness ==
    /\ pc = "raised"
    /\ error = TokenTransferNotFound
    /\ lastParse.kind = "swap"
    /\ lastParse.result.failedOn = TrOut
    /\ NeedsUnresolvedTransfer(TrOut)
    /\ "mintB" \notin DOMAIN mintDecimals

\* the token-2022 program identifier occurs in the accounts list
Names2022(accounts) ==
    TOKEN_2022_PROGRAM_ADDRESS \in {accounts[k] : k \in 1..Len(accounts)}

\* C18: the variant and the pool of a parsed swap depend on the accounts list
\* alone: every activity has variant SwapV2 and address accounts[8] when the
\* token-2022 program identifier occurs in accounts, and variant Swap and
\* address accounts[6] when it does not, whichever of the two swap
\* discriminators the instruction carries.
C18_SwapVariantFromAccounts ==
    ParsedOk("swap") =>
        LET accounts == lastParse.instruction.accounts
        IN  \A k \in 1..Len(lastParse.result.activities) :
                IF Names2022(accounts)
                THEN /\ lastParse.result.activities[k].variant = "swap_v2"
                     /\ lastParse.result.activities[k].address = At(accounts, 8)
                ELSE /\ lastParse.result.activities[k].variant = "swap"
                     /\ lastParse.result.activities[k].address = At(accounts, 6)

\* a swap was parsed whose discriminator is the one of Swap and whose accounts
\* hold the token-2022 program: its activities are SwapV2 activities of accounts[8]
C18_Witness ==
    /\ ParsedOk("swap")
    /\ lastParse.instruction.data.head = "f8c69e91e17587c8"
    /\ Names2022(lastParse.instruction.accounts)
    /\ lastParse.result.activities[1].variant = "swap_v2"
    /\ lastParse.result.activities[1].address = "pool2"

\* the 1-based position of the first occurrence of `value` in `arr`
FirstOccurrence(arr, value) ==
    CHOOSE k \in 1..Len(arr) : arr[k] = value /\ \A j \in 1..(k - 1) : arr[j] # value

\* C19: the record parseCreate returns has address = accounts[2], tokenAddress =
\* accounts[1] and tokenAddresses = the accounts from position 6 on, each once,
\* in the order of their first occurrences; it is the same record whatever the
\* inner instructions of the instruction (and the transfer list) are.
C19_CreateFromAccounts ==
    lastParse.kind = "create" =>
        LET instruction == lastParse.instruction
            accounts == instruction.accounts
            rest == SubSeq(accounts, 7, Len(accounts))
            record == lastParse.result.activities[1]
            mints == record.tokenAddresses
        IN  /\ record.address = At(accounts, 2)
            /\ record.tokenAddress = At(accounts, 1)
            /\ record.variant = "create"
            /\ {mints[k] : k \in 1..Len(mints)} = {rest[k] : k \in 1..Len(rest)}
            /\ \A a, b \in 1..Len(mints) :
                   a < b => FirstOccurrence(rest, mints[a]) < FirstOccurrence(rest, mints[b])
            /\ record = parseCreate([instruction EXCEPT !.innerInstructions = <<>>])
            /\ \A field \in DOMAIN record :
                   creates[Len(creates)][field] = record[field]

\* a create was parsed whose accounts name a mint twice from position 6 on, with
\* inner instructions under it: the record lists the two mints once each
C19_Witness ==
    /\ lastParse.kind = "create"
    /\ lastParse.instruction.accounts = CreateAccounts
    /\ lastParse.instruction.innerInstructions # <<>>
    /\ creates # <<>>
    /\ creates[Len(creates)].tokenAddresses = <<"mintA", "mintB">>

AmountEquality(entry, innerInstruction) ==
    /\ entry.mint \in DOMAIN mintDecimals
    /\ entry.tokenAmount =
           innerInstruction.data.amount * Pow10(UiScale - mintDecimals[entry.mint])

\* C21: an entry a reconciler returns satisfies the amount equality and has the
\* required account positions: for Burn mint = accounts[1], source = accounts[0],
\* owner = accounts[2]; for MintTo mint = accounts[0], destination = accounts[1];
\* for the unchecked Transfer source = accounts[0], destination = accounts[1];
\* for the checked Transfer destination = accounts[1] and owner = accounts[3].
C21_RequiredAccountPositions ==
    \A innerInstruction \in AllInstructions :
        LET handed == TokenTransfers(transaction, mintDecimals)
            accounts == innerInstruction.accounts
            burn == getTokenBurnFromInnerInstruction(handed, innerInstruction, mintDecimals)
            mintTo == getTokenMintToFromInnerInstruction(
                          handed, innerInstruction, mintDecimals)
            transfer == getTokenTransferFromInnerInstruction(
                            handed, innerInstruction, mintDecimals)
        IN  /\ ~burn.isNull =>
                   /\ AmountEquality(burn, innerInstruction)
                   /\ burn.mint = At(accounts, 1)
                   /\ burn.fromTokenAccount = At(accounts, 0)
                   /\ burn.fromUserAccount = At(accounts, 2)
            /\ ~mintTo.isNull =>
                   /\ AmountEquality(mintTo, innerInstruction)
                   /\ mintTo.mint = At(accounts, 0)
                   /\ mintTo.toTokenAccount = At(accounts, 1)
            /\ (~transfer.isNull /\ transfer # EMPTY_TOKEN_TRANSFER) =>
                   /\ AmountEquality(transfer, innerInstruction)
                   /\ IF innerInstruction.data.len = 9
                      THEN /\ transfer.fromTokenAccount = At(accounts, 0)
                           /\ transfer.toTokenAccount = At(accounts, 1)
                      ELSE /\ transfer.toTokenAccount = At(accounts, 1)
                           /\ transfer.fromUserAccount = At(accounts, 3)

\* the transfer list the reconcilers of the call are handed
Handed == TokenTransfers(transaction, mintDecimals)

\* the entries of the handed list that a MintTo payload may reconcile to
MintToEntries(list, innerInstruction) ==
    {k \in 1..Len(list) :
        /\ innerInstruction.data.len \in {9, 10}
        /\ AmountEquality(list[k], innerInstruction)
        /\ list[k].mint = At(innerInstruction.accounts, 0)
        /\ list[k].toTokenAccount = At(innerInstruction.accounts, 1)}

\* the 1-based position of the first inner instruction with a MintTo entry, 0 for none
FirstWithMintTo(list, inner) ==
    IF \E k \in 1..Len(inner) : MintToEntries(list, inner[k]) # {}
    THEN CHOOSE k \in 1..Len(inner) :
             /\ MintToEntries(list, inner[k]) # {}
             /\ \A j \in 1..(k - 1) : MintToEntries(list, inner[j]) = {}
    ELSE 0

\* the first element of a non-empty set of positions
First(positions) == CHOOSE k \in positions : \A j \in positions : k <= j

\* C22: parseDeposit walks the inner instructions in order up to the first that
\* reconciles as a MintTo.  When every entry before it (every entry, if there
\* is none) reconciles as a Transfer, it returns one positive (unnegated)
\* activity of the matched transfer for each of them, in order, and then one
\* negative activity for the MintTo, and the entries behind the MintTo have no
\* effect on the result; when an entry before the MintTo reconciles as neither,
\* it raises TokenTransferNotFound on the first such entry.
C22_DepositWalksToFirstMintTo ==
    lastParse.kind = "deposit" =>
        LET instruction == lastParse.instruction
            inner == instruction.innerInstructions
            acts == lastParse.result.activities
            handed == Handed
            stop == FirstWithMintTo(handed, inner)
            walked == IF stop = 0 THEN Len(inner) ELSE stop - 1
            failing == {k \in 1..walked : LastLeg(k).isNull}
        IN  IF failing = {}
            THEN /\ lastParse.result.status = "ok"
                 /\ Len(acts) = IF stop = 0 THEN walked ELSE walked + 1
                 /\ \A k \in 1..walked :
                        /\ acts[k].address = At(instruction.accounts, 3)
                        /\ acts[k].tokenAddress = LastLeg(k).mint
                        /\ acts[k].userAddress = LastLeg(k).fromUserAccount
                        /\ acts[k].amountU64 =
                               [minus |-> FALSE, digits |-> inner[k].data.amount]
                        /\ acts[k].amount = LastLeg(k).tokenAmount
                        /\ acts[k].amount >= 0
                 /\ stop # 0 =>
                        LET entry == handed[First(MintToEntries(handed, inner[stop]))]
                        IN  /\ acts[stop].address = At(instruction.accounts, 3)
                            /\ acts[stop].tokenAddress = entry.mint
                            /\ acts[stop].userAddress = entry.toUserAccount
                            /\ acts[stop].amountU64 =
                                   [minus |-> TRUE, digits |-> inner[stop].data.amount]
                            /\ acts[stop].amount = 0 - entry.tokenAmount
                            /\ lastParse.result =
                                   parseDeposit(
                                       [instruction EXCEPT
                                           !.innerInstructions = SubSeq(inner, 1, stop)],
                                       handed, mintDecimals)
            ELSE /\ lastParse.result.status = TokenTransferNotFound
                 /\ lastParse.result.activities = <<>>
                 /\ lastParse.result.failedOn = inner[First(failing)]

\* a deposit was parsed whose MintTo is followed by an entry that reconciles as
\* nothing: the transfer's positive activity, the MintTo's negative one, no raise
C22_Witness ==
    /\ ParsedOk("deposit")
    /\ LET inner == lastParse.instruction.innerInstructions
           stop == FirstWithMintTo(Handed, inner)
       IN  /\ stop = 2
           /\ Len(inner) > stop
           /\ LastLeg(stop + 1).isNull
           /\ MintToEntries(Handed, inner[stop + 1]) = {}
    /\ Len(lastParse.result.activities) = 2
    /\ lastParse.result.activities[1].amount > 0
    /\ lastParse.result.activities[2].amount < 0

\* the instruction whose programId, accounts and data are those of the first
\* element of the slice and whose innerInstructions are the rest of the slice
HeadOverRest(slice) ==
    [programId |-> Head(slice).programId, accounts |-> Head(slice).accounts,
     data |-> Head(slice).data, innerInstructions |-> Tail(slice)]

\* C23: for every non-empty slice s of inner instructions, parseSwapCpi(s),
\* parseDepositCpi(s), parseWithdrawCpi(s) and parseCreateCpi(s) return (or
\* raise) exactly what parseSwap, parseDeposit, parseWithdraw and parseCreate do
\* for the instruction made of s[0]'s programId, accounts and data over s[1..]
\* (s every slice innerInstructions.slice(i) at which the scan stands, whatever
\* its first element is, with the call's transfer list and table); so does every
\* parser call the CPI scan makes at a cursor.
C23_CpiParsersAreDirectParsersOnHeadOverRest ==
    /\ (pc = "scan" /\ i < Len(Instruction.innerInstructions)) =>
           LET slice == SubSeq(Instruction.innerInstructions, i + 1,
                               Len(Instruction.innerInstructions))
               direct == HeadOverRest(slice)
               handed == Handed
           IN  /\ parseSwapCpi(slice, handed, mintDecimals) =
                      parseSwap(direct, handed, mintDecimals)
               /\ parseDepositCpi(slice, handed, mintDecimals) =
                      parseDeposit(direct, handed, mintDecimals)
               /\ parseWithdrawCpi(slice, handed, mintDecimals) =
                      parseWithdraw(direct, handed, mintDecimals)
               /\ parseCreateCpi(slice) = parseCreate(direct)
    /\ (lastParse.kind # Null /\ lastParse.cursor >= 0) =>
           LET outer == transaction.instructions[lastParse.index + 1]
               slice == SubSeq(outer.innerInstructions, lastParse.cursor + 1,
                               Len(outer.innerInstructions))
               direct == HeadOverRest(slice)
           IN  /\ lastParse.instruction = direct
               /\ lastParse.result =
                      CASE lastParse.kind = "swap" ->
                               parseSwap(direct, Handed, mintDecimals)
                        [] lastParse.kind = "deposit" ->
                               parseDeposit(direct, Handed, mintDecimals)
                        [] lastParse.kind = "withdraw" ->
                               parseWithdraw(direct, Handed, mintDecimals)
                        [] lastParse.kind = "create" ->
                               Returned(<<parseCreate(direct)>>)

\* the scan parsed a swap at a cursor behind the first inner instruction, and the
\* slice there has a body: two activities came back
C23_Witness ==
    /\ ParsedOk("swap")
    /\ lastParse.cursor > 0
    /\ Len(lastParse.instruction.innerInstructions) >= 3
    /\ Len(lastParse.result.activities) = 2

\* the mints of the balance-change records of `tx` that carry a decimals value
MintsWithDecimalsValue(tx) ==
    {FlatChanges(tx.accountData)[k].mint : k \in
        {j \in 1..Len(FlatChanges(tx.accountData)) :
            FlatChanges(tx.accountData)[j].hasRawTokenAmount}}

\* C24: over the calls made on one table the set of its mints only grows: no
\* step removes a mint, and when a call has ended (returned or raised) the
\* table holds every mint of the transaction's balance-change records that
\* carried a decimals value.
C24_TableOnlyGrows ==
    [][/\ DOMAIN mintDecimals \subseteq DOMAIN mintDecimals'
       /\ pc' \in {"done", "raised"} =>
              MintsWithDecimalsValue(transaction') \subseteq DOMAIN mintDecimals']_vars

\* the inner instructions of the outer instruction behind the operation the
\* scan parsed last (innerInstructions[j+1..end] for the cursor j)
BehindCursor ==
    LET outer == transaction.instructions[lastParse.index + 1]
    IN  SubSeq(outer.innerInstructions, lastParse.cursor + 2, Len(outer.innerInstructions))

\* the positions of `inner` behind a later operation of the AMM programs
BehindLaterOperation(inner) ==
    {k \in 1..Len(inner) :
        \E j \in 1..(k - 1) : getTransactionVariant(inner[j]) # Null}

\* C25: a Withdraw the scan finds at inner index j reconciles every
\* token-program instruction of innerInstructions[j+1..end] of the outer
\* instruction, those of later operations included: when each reconciles (as a
\* Burn, else as a Transfer) the withdraw has one activity for each of them, in
\* order, and otherwise the call raises TokenTransferNotFound on the first that
\* does not.
C25_CpiWithdrawTakesAllTokenInstructionsBehind ==
    (lastParse.kind = "withdraw" /\ lastParse.cursor >= 0) =>
        LET instruction == lastParse.instruction
            behind == BehindCursor
            acts == lastParse.result.activities
            failing == {k \in TokenPositions(behind) :
                           WithdrawLeg(instruction, behind[k]) = NoLeg}
            Rank(k) == Cardinality({j \in TokenPositions(behind) : j <= k})
        IN  /\ instruction.innerInstructions = behind
            /\ IF failing = {}
               THEN /\ lastParse.result.status = "ok"
                    /\ Len(acts) = Cardinality(TokenPositions(behind))
                    /\ \A k \in TokenPositions(behind) :
                           acts[Rank(k)] = WithdrawLeg(instruction, behind[k])
                    /\ Len(poolActivities) >= Len(acts)
                    /\ \A k \in 1..Len(acts) :
                           /\ LastAppended(poolActivities)[k].variant =
                                  WithdrawVariant(instruction)
                           /\ LastAppended(poolActivities)[k].instructionIndex =
                                  lastParse.index * 1000 + lastParse.cursor
               ELSE /\ pc = "raised"
                    /\ error = TokenTransferNotFound
                    /\ lastParse.result.failedOn = behind[First(failing)]

\* the scan parsed a withdraw that is followed by a later operation and that
\* operation's token instruction: the instruction came out as a withdraw activity
C25_Witness ==
    /\ ParsedOk("withdraw")
    /\ lastParse.cursor >= 0
    /\ \E k \in TokenPositions(BehindCursor) \cap BehindLaterOperation(BehindCursor) :
           /\ Len(lastParse.result.activities) >=
                  Cardinality({j \in TokenPositions(BehindCursor) : j <= k})
           /\ poolActivities[Len(poolActivities)].variant = "withdraw"

\* the records of `collection` that belong to a top-level instruction before `k`
RecordsBefore(collection, k) ==
    SelectSeq(collection, LAMBDA record : record.instructionIndex \div 1000 < k)

\* C26: a raise rolls nothing back: the step on which the call raises, while
\* handling top-level instruction k, leaves the three output collections as
\* they were, so what the caller passed and every record appended for
\* instructions 0..k-1 is still there, and leaves in the table every mint it
\* held, those the call added from the balance changes included.
C26_RaiseRollsNothingBack ==
    [][pc' = "raised" =>
          /\ poolActivities' = poolActivities
          /\ creates' = creates
          /\ closes' = closes
          /\ \A name \in {"poolActivities", "creates", "closes"} :
                 /\ IsPrefix(collectionsAtCall[name], Collection(name)')
                 /\ RecordsBefore(AddedTo(name)', index') = RecordsBefore(AddedTo(name), index)
          /\ index' = index
          /\ DOMAIN mintDecimals \subseteq DOMAIN mintDecimals'
          /\ DOMAIN ConfidentMintDecimals(transaction, tableAtCall)
                 \subseteq DOMAIN mintDecimals']_vars

\* the call raised TokenTransferNotFound on its second top-level instruction:
\* the activities of the first are in poolActivities behind what the caller
\* passed, and the table holds a mint the call added
C26_Witness ==
    /\ pc = "raised"
    /\ error = TokenTransferNotFound
    /\ index = 1
    /\ collectionsAtCall.poolActivities # <<>>
    /\ RecordsBefore(AddedTo("poolActivities"), 1) # <<>>
    /\ DOMAIN mintDecimals # DOMAIN tableAtCall

\* the positions of the balance-change records of `tx` that carry a decimals
\* value for `mint`
DecimalsRecords(tx, mint) ==
    {k \in 1..Len(FlatChanges(tx.accountData)) :
        /\ FlatChanges(tx.accountData)[k].mint = mint
        /\ FlatChanges(tx.accountData)[k].hasRawTokenAmount}

\* `table` overlaid with the balance-change decimals of `tx`: a mint of both
\* has the value of the transaction's (last) record
Overlaid(table, tx) ==
    [mint \in DOMAIN table \cup MintsWithDecimalsValue(tx) |->
        IF mint \in MintsWithDecimalsValue(tx)
        THEN LET last == CHOOSE k \in DecimalsRecords(tx, mint) :
                             \A j \in DecimalsRecords(tx, mint) : j <= k
             IN  FlatChanges(tx.accountData)[last].decimals
        ELSE table[mint]]

\* C27: the records of a call depend on what earlier calls left in the shared
\* table.  A call A leaves the table it was given overlaid with the
\* balance-change decimals of its transaction; the next call B is given that
\* table; and the result of every Swap, Deposit or Withdraw parse of B is the
\* parser's result on the table B was given (overlaid with B's own evidence),
\* with the transfers of the mints that table holds.
C27_RecordsDependOnSharedTable ==
    /\ pc \in {"done", "raised"} => mintDecimals = Overlaid(tableAtCall, transaction)
    /\ pc = "idle" => tableAtCall = mintDecimals
    /\ lastParse.kind \in {"swap", "deposit", "withdraw"} =>
           LET table == ConfidentMintDecimals(transaction, tableAtCall)
               list == TokenTransfers(transaction, table)
           IN  lastParse.result =
                   CASE lastParse.kind = "swap" ->
                            parseSwap(lastParse.instruction, list, table)
                     [] lastParse.kind = "deposit" ->
                            parseDeposit(lastParse.instruction, list, table)
                     [] lastParse.kind = "withdraw" ->
                            parseWithdraw(lastParse.instruction, list, table)

\* the mints named by the balance-change records of `tx`, none of which gives
\* the mint a nonzero decimals value: each has decimals 0 or no rawTokenAmount
MintsWithoutDecimals(tx) ==
    {FlatChanges(tx.accountData)[k].mint : k \in 1..Len(FlatChanges(tx.accountData))}
        \ {FlatChanges(tx.accountData)[k].mint : k \in
              {j \in 1..Len(FlatChanges(tx.accountData)) :
                  /\ FlatChanges(tx.accountData)[j].hasRawTokenAmount
                  /\ FlatChanges(tx.accountData)[j].decimals # 0}}

\* C28: a balance-change record whose decimals value is 0, or that has no
\* rawTokenAmount, adds nothing to the table: during the call a mint that only
\* such records name is in the table exactly when the table the caller passed
\* held it, with the value it had; and when the caller's table did not hold it,
\* no transfer of the mint is in the list handed to reconciliation and no
\* activity of the call's last parse names it.
C28_ZeroDecimalsAddsNothing ==
    pc # "idle" =>
        \A mint \in MintsWithoutDecimals(transaction) :
            /\ mint \in DOMAIN mintDecimals <=> mint \in DOMAIN tableAtCall
            /\ mint \in DOMAIN tableAtCall => mintDecimals[mint] = tableAtCall[mint]
            /\ mint \notin DOMAIN tableAtCall =>
                   /\ \A k \in 1..Len(Handed) : Handed[k].mint # mint
                   /\ lastParse.kind \in {"swap", "deposit", "withdraw"} =>
                          \A k \in 1..Len(lastParse.result.activities) :
                              lastParse.result.activities[k].tokenAddress # mint

\* a swap raised TokenTransferNotFound on its output leg of mint B: the
\* transaction holds the leg's transfer and a balance-change record of mint B
\* with decimals 0, and the table passed did not hold mint B
C28_Witness ==
    /\ pc = "raised"
    /\ error = TokenTransferNotFound
    /\ lastParse.kind = "swap"
    /\ lastParse.result.failedOn = TrOut
    /\ "mintB" \in MintsWithoutDecimals(transaction)
    /\ \E k \in 1..Len(FlatChanges(transaction.accountData)) :
           FlatChanges(transaction.accountData)[k] = Change("mintB", TRUE, 0)
    /\ "mintB" \notin DOMAIN tableAtCall
    /\ \E k \in 1..Len(transaction.tokenTransfers) :
           transaction.tokenTransfers[k] = TransferOutB

\* the entries of the handed list with the amount and the account positions a
\* Burn payload requires
BurnEntries(list, innerInstruction) ==
    {k \in 1..Len(list) :
        /\ innerInstruction.data.len \in {9, 10}
        /\ AmountEquality(list[k], innerInstruction)
        /\ list[k].mint = At(innerInstruction.accounts, 1)
        /\ list[k].fromTokenAccount = At(innerInstruction.accounts, 0)
        /\ list[k].fromUserAccount = At(innerInstruction.accounts, 2)}

\* the entries of the handed list with the amount and the account positions a
\* Transfer payload of a nonzero amount requires
TransferEntries(list, innerInstruction) ==
    {k \in 1..Len(list) :
        /\ innerInstruction.data.len \in {9, 10}
        /\ innerInstruction.data.amount # 0
        /\ AmountEquality(list[k], innerInstruction)
        /\ list[k].fromTokenAccount = At(innerInstruction.accounts, 0)
        /\ list[k].toTokenAccount =
               At(innerInstruction.accounts,
                  IF innerInstruction.data.len = 9 THEN 1 ELSE 2)}

\* `found` is the entry of the handed list at the first of `entries`, with the
\* raw amount of the instruction
IsFirstOf(found, list, entries, innerInstruction) ==
    /\ entries # {}
    /\ \A field \in DOMAIN list[First(entries)] :
           found[field] = list[First(entries)][field]
    /\ found.rawAmount = innerInstruction.data.amount

\* the inner instructions a successful Deposit or Withdraw parse made its
\* activities of, in order
WalkedInstructions ==
    IF lastParse.kind = "withdraw"
    THEN TokenInstructions(lastParse.instruction.innerInstructions)
    ELSE SubSeq(lastParse.instruction.innerInstructions, 1,
                Len(lastParse.result.activities))

\* C29: reconciliation takes the first matching entry in list order and
\* consumes nothing: for every instruction of the transaction a call is given
\* each reconciler returns the first entry of the call's list that has the amount
\* and the account positions it requires, whatever was reconciled before, so two inner
\* instructions of a parsed Deposit or Withdraw with the same payload and
\* accounts give the same activity, also when the list holds a second matching
\* entry.
C29_FirstMatchNothingConsumed ==
    /\ (pc = "loop" /\ index = 0) =>
           LET handed == Handed
           IN  \A innerInstruction \in AllInstructions :
                   LET burn == getTokenBurnFromInnerInstruction(
                                   handed, innerInstruction, mintDecimals)
                       mintTo == getTokenMintToFromInnerInstruction(
                                     handed, innerInstruction, mintDecimals)
                       transfer == getTokenTransferFromInnerInstruction(
                                       handed, innerInstruction, mintDecimals)
                       burns == BurnEntries(handed, innerInstruction)
                       mintTos == MintToEntries(handed, innerInstruction)
                       transfers == TransferEntries(handed, innerInstruction)
                   IN  /\ IF burns = {} THEN burn.isNull
                          ELSE IsFirstOf(burn, handed, burns, innerInstruction)
                       /\ IF mintTos = {} THEN mintTo.isNull
                          ELSE IsFirstOf(mintTo, handed, mintTos, innerInstruction)
                       /\ IF transfers = {}
                          THEN transfer.isNull \/ transfer = EMPTY_TOKEN_TRANSFER
                          ELSE IsFirstOf(transfer, handed, transfers, innerInstruction)
    /\ (lastParse.kind \in {"deposit", "withdraw"} /\ lastParse.result.status = "ok") =>
           LET walked == WalkedInstructions
           IN  \A j, k \in 1..Len(lastParse.result.activities) :
                   walked[j] = walked[k] =>
                       lastParse.result.activities[j] = lastParse.result.activities[k]

\* a deposit was parsed whose first two inner instructions are the same transfer
\* instruction, with two distinct matching entries in the handed list: both
\* activities are of the first entry, the user's
C29_Witness ==
    /\ ParsedOk("deposit")
    /\ Len(lastParse.result.activities) >= 2
    /\ WalkedInstructions[1] = TrIn
    /\ WalkedInstructions[2] = TrIn
    /\ Cardinality(TransferEntries(Handed, TrIn)) = 2
    /\ \E a, b \in TransferEntries(Handed, TrIn) : Handed[a] # Handed[b]
    /\ lastParse.result.activities[1].userAddress = "user"
    /\ lastParse.result.activities[2].userAddress = "user"

\* C30: a Close embedded under an unclassified top-level instruction produces
\* no record.  A step of a call changes closes only by appending the record of
\* the directly classified top-level Close at `index` (parentProgramId null,
\* instructionIndex index*1000, address accounts[1]); a step of the scan never
\* changes closes, and over an inner Close it moves the cursor by 1 and leaves
\* the three collections as they are.
C30_CpiCloseMakesNoRecord ==
    [][(pc # "idle" /\ pc' # "idle") =>
          /\ closes' # closes =>
                 /\ pc = "loop"
                 /\ getTransactionVariant(Instruction) = "close"
                 /\ Len(closes') = Len(closes) + 1
                 /\ SubSeq(closes', 1, Len(closes)) = closes
                 /\ closes'[Len(closes')].parentProgramId = Null
                 /\ closes'[Len(closes')].programId = Instruction.programId
                 /\ closes'[Len(closes')].instructionIndex = index * 1000
                 /\ closes'[Len(closes')].address = At(Instruction.accounts, 1)
          /\ pc = "scan" => closes' = closes
          /\ (pc = "scan" /\ i < Len(Instruction.innerInstructions)
                 /\ DISCRIMINATORS(Instruction.innerInstructions[i + 1].data.head) = "close"
                 /\ IsAmmProgram(Instruction.innerInstructions[i + 1])) =>
                 /\ pc' = "scan"
                 /\ i' = i + 1
                 /\ poolActivities' = poolActivities
                 /\ creates' = creates
                 /\ lastParse' = lastParse]_vars

\* the scan under a router instruction has just stepped over an inner Close, from
\* cursor j to j+1, and the call has added nothing to closes
C30_Witness ==
    /\ pc = "scan"
    /\ lastCursor >= 0
    /\ ~IsAmmProgram(Instruction)
    /\ Instruction.innerInstructions[lastCursor + 1] = CloseOp
    /\ i = lastCursor + 1
    /\ AddedTo("closes") = <<>>

=============================================================================
